---- MODULE Spec2Model ----
(***************************************************************************)
(* The per-user udev proxy server of aurynk (scripts/aurynk_udev_proxy.py) *)
(* as a state machine.  The server is one asyncio event loop: every task   *)
(* runs without interruption from one await that suspends to the next, so  *)
(* an action below is the code a task runs between two suspension points.  *)
(*                                                                         *)
(*   - one task per client connection (_handle_client): pc, req            *)
(*   - one task per spawned child (_monitor_process): procs[p].mon         *)
(*   - the broadcasts in flight (_broadcast suspended in drain): bc        *)
(***************************************************************************)
EXTENDS Integers, Sequences, FiniteSets, TLC

\* ------------------------------------------------------------------ bounds
NumConns == 3          \* connections ever accepted
NumCmdConns == 2       \* of them, connections that send supervisor commands
NumSerials == 2        \* distinct serials the clients name
NumIds == 2            \* distinct request ids the clients use
MaxReqs == 3           \* lines read, over all connections
MaxProcs == 2          \* children spawned

Conns == 1..NumConns
SerialNames == <<"X", "Y", "Z", "W">>
Serials == {SerialNames[i] : i \in 1..NumSerials}
IdNames == <<"1", "2", "3", "4">>
Ids == {IdNames[i] : i \in 1..NumIds}
RetCodes == {0, 1}

\* ------------------------------------------------------------------ state
VARIABLES
    pc,         \* per connection: where its _handle_client task is suspended
    req,        \* per connection: the last line read (the handler's local req)
    held,       \* per connection: the local proc of its stop_mirror
    closed,     \* per connection: the server has called writer.close()
    clients,    \* self.clients: the subscriber set
    out,        \* per connection: what was written to it since that line was read
    devices,    \* self.devices: key -> info
    processes,  \* self.processes: serial -> pid of the Process object stored
    procs,      \* every child spawned so far, by pid, with its monitor task
    bc,         \* the broadcasts suspended in a drain, by the task running them
    nreq,       \* per connection: lines read so far
    subscribed, \* the connections that have sent subscribe
    queue,      \* self.event_queue: the udev events not yet processed
    evt,        \* where the _process_event_queue task is suspended
    last_added_device,  \* self.last_added_device
    scans,      \* the _rescan_adb tasks scheduled and not yet finished
    nev,        \* udev events delivered so far, and rescans started so far
    norm,       \* serial normalization: the serials given and the keys returned
    tool,       \* the packaged helper (aurynk/tools): its devices and its tasks
    cli,        \* UdevProxyClient: its event thread, callbacks and deliveries
    call,       \* one UdevProxyClient.send_command call
    scr         \* ScrcpyManager: processes, monitor threads, stop callbacks

conn_vars == <<pc, req, held, closed, nreq, subscribed>>
sup_vars == <<processes, procs>>
reg_vars == <<devices, queue, evt, last_added_device, scans, nev>>
server_vars == <<pc, req, held, closed, clients, out, devices, processes, procs, bc, nreq,
                 subscribed, queue, evt, last_added_device, scans, nev>>
\* what the server's actions leave alone
ext_vars == <<norm, tool, cli, call, scr>>
vars == <<server_vars, ext_vars>>

\* ------------------------------------------------------------------ JSON
\* A JSON object is a function from its keys; a key that is not there is
\* not in its DOMAIN.  dict.get(k) gives None for such a key.
None == "None"
Has(d, k) == k \in DOMAIN d
Get(d, k) == IF k \in DOMAIN d THEN d[k] ELSE None
Opt(k, v) == IF v = None THEN <<>> ELSE (k :> v)
\* dict.pop(k, None)
Pop(d, k) == [x \in DOMAIN d \ {k} |-> d[x]]
\* d[k] = v
Put(d, k, v) == (k :> v) @@ d

\* One line as json.loads sees it: an object with some of the keys cmd, id,
\* serial; text that is not JSON; or a JSON value that is not an object.
ObjLine(cmd, id, serial) ==
    [kind |-> "object", obj |-> Opt("cmd", cmd) @@ Opt("id", id) @@ Opt("serial", serial)]
OtherLine(kind) == [kind |-> kind, obj |-> <<>>]
NoLine == OtherLine("none")

Cmds == {"ping", "status", "subscribe", "start_mirror", "stop_mirror", "bogus"}
SerialCmds == {"start_mirror", "stop_mirror"}
\* "text" is not JSON; "number" and "null" are JSON values on which
\* ("cmd" in req) raises TypeError; "string" and "array" are ones that do
\* not hold "cmd"; "array_cmd" is an array with the element "cmd".
OtherKinds == {"text", "number", "null", "string", "array", "array_cmd"}

\* The lines the clients send under each specification.
\* SupLines: the supervisor's commands, and subscribe to hear the exits.
SupLines ==
    {ObjLine(cmd, None, s) : cmd \in SerialCmds, s \in Serials \cup {None}}
    \cup {ObjLine("subscribe", None, None)}

\* if not serial: None and "" are falsy
Truthy(serial) == serial \notin {None, ""}

\* ------------------------------------------------------------------ messages
\* A reply is a JSON object with the key code; a broadcast has none.
ErrorReply(error) == [code |-> 1, status |-> "error", error |-> error]

\* if "id" in req: resp["id"] = req["id"]
WithId(r, resp) == IF Has(r, "id") THEN Put(resp, "id", r.id) ELSE resp

IsReply(m) == Has(m, "code")
IsBroadcast(m) == ~Has(m, "code")

\* writer.write(data): the transport drops what is written to a connection
\* it is closing; it does not raise.  out holds what was written.
Written(o, w, m) == IF closed[w] THEN o ELSE [o EXCEPT ![w] = Append(@, m)]

\* await writer.drain() raises (ConnectionResetError, BrokenPipeError) when
\* the connection is lost: always once the server has closed it, and at any
\* time when the peer has gone away.
DrainRaises(w) == IF closed[w] THEN {TRUE} ELSE BOOLEAN

\* ------------------------------------------------------------------ Init
ServerInit ==
    /\ pc = [c \in Conns |-> "none"]
    /\ req = [c \in Conns |-> NoLine]
    /\ held = [c \in Conns |-> 0]
    /\ closed = [c \in Conns |-> FALSE]
    /\ clients = {}
    /\ out = [c \in Conns |-> <<>>]
    /\ devices = <<>>
    /\ processes = <<>>
    /\ procs = <<>>
    /\ bc = <<>>
    /\ nreq = [c \in Conns |-> 0]
    /\ subscribed = {}
    /\ queue = <<>>
    /\ evt = [at |-> "get"]
    /\ last_added_device = None
    /\ scans = <<>>
    /\ nev = [events |-> 0, scans |-> 0]

\* The helper not started, and no serial given to normalize.
ToolIdle == [devices |-> <<>>, calls |-> <<>>, tasks |-> <<>>, sent |-> <<>>, rescans |-> 0,
             events |-> 0]
\* UdevProxyClient(): no thread, no callback; backoff is in half seconds
ClientIdle ==
    [at |-> "none", stop |-> FALSE, backoff |-> 1, delay |-> 0, callbacks |-> <<>>,
     snap |-> <<>>, recv |-> <<>>, got |-> <<>>, since |-> <<>>, attempts |-> 0, lines |-> 0,
     thread |-> FALSE, join |-> FALSE, later |-> 0, returned |-> FALSE, cut |-> 0,
     wrote |-> <<>>]
\* no send_command call made
CallIdle == [at |-> "idle"]
\* ScrcpyManager.__new__: processes = {}, stop_callbacks = []
ManagerIdle == [processes |-> <<>>, procs |-> <<>>, stop_callbacks |-> {}, called |-> {},
                stop |-> [at |-> "idle"]]
Init ==
    /\ ServerInit
    /\ norm = <<>>
    /\ tool = ToolIdle
    /\ cli = ClientIdle
    /\ call = CallIdle
    /\ scr = ManagerIdle


\* ------------------------------------------------------------------ helpers
\* list(self.devices.values())
Values(d) == {d[k] : k \in DOMAIN d}

\* "cmd" in req, for a req that json.loads returned: a key test on an object,
\* an element or substring test on an array or a string.
Contains(line, k) ==
    CASE line.kind = "object" -> Has(line.obj, k)
      [] line.kind = "array_cmd" -> k = "cmd"
      [] OTHER -> FALSE

\* The request makes _handle_client raise: ("cmd" in req) is a TypeError on a
\* number and on null, and req.get is an AttributeError on an array.
Raises(line) ==
    \/ line.kind \in {"number", "null"}
    \/ line.kind # "object" /\ Contains(line, "cmd")

\* _handle_cmd answering a command it does not know with the token of a
\* request that has no cmd
handle_cmd_unknown_request(r) ==
    LET cmd == Get(r, "cmd")
        serial == Get(r, "serial")
    IN  CASE cmd = "ping" -> [code |-> 0, status |-> "ok", pong |-> TRUE]
          [] cmd = "status" ->
                [code |-> 0, status |-> "ok", devices |-> Values(devices),
                 processes |-> [s \in DOMAIN processes |-> [pid |-> processes[s]]]]
          [] cmd = "start_mirror" /\ ~Truthy(serial) -> ErrorReply("missing_serial")
          [] cmd = "start_mirror" /\ serial \in DOMAIN processes -> ErrorReply("already_running")
          [] cmd = "stop_mirror" /\ ~Truthy(serial) -> ErrorReply("missing_serial")
          [] cmd = "stop_mirror" /\ serial \notin DOMAIN processes -> ErrorReply("not_running")
          [] OTHER -> ErrorReply("unknown_request")

\* _handle_cmd with a stop_mirror that answers ok for a serial it does not track
handle_cmd_stop_ok(r) ==
    LET cmd == Get(r, "cmd")
        serial == Get(r, "serial")
    IN  CASE cmd = "ping" -> [code |-> 0, status |-> "ok", pong |-> TRUE]
          [] cmd = "status" ->
                [code |-> 0, status |-> "ok", devices |-> Values(devices),
                 processes |-> [s \in DOMAIN processes |-> [pid |-> processes[s]]]]
          [] cmd = "start_mirror" /\ ~Truthy(serial) -> ErrorReply("missing_serial")
          [] cmd = "start_mirror" /\ serial \in DOMAIN processes -> ErrorReply("already_running")
          [] cmd = "stop_mirror" /\ ~Truthy(serial) -> ErrorReply("missing_serial")
          [] cmd = "stop_mirror" /\ serial \notin DOMAIN processes -> [code |-> 0, status |-> "ok"]
          [] OTHER -> ErrorReply("unknown_cmd")

\* _handle_cmd where it returns without awaiting anything.
handle_cmd(r) ==
    LET cmd == Get(r, "cmd")
        serial == Get(r, "serial")
    IN  CASE cmd = "ping" -> [code |-> 0, status |-> "ok", pong |-> TRUE]
          [] cmd = "status" ->
                [code |-> 0, status |-> "ok", devices |-> Values(devices),
                 processes |-> [s \in DOMAIN processes |-> [pid |-> processes[s]]]]
          [] cmd = "start_mirror" /\ ~Truthy(serial) -> ErrorReply("missing_serial")
          [] cmd = "start_mirror" /\ serial \in DOMAIN processes -> ErrorReply("already_running")
          [] cmd = "stop_mirror" /\ ~Truthy(serial) -> ErrorReply("missing_serial")
          [] cmd = "stop_mirror" /\ serial \notin DOMAIN processes -> ErrorReply("not_running")
          [] OTHER -> ErrorReply("unknown_cmd")

\* _handle_cmd with a start_mirror that does not look the serial up in
\* self.processes before it spawns
Awaits_unchecked(r) ==
    LET cmd == Get(r, "cmd")
        serial == Get(r, "serial")
    IN  \/ cmd = "start_mirror" /\ Truthy(serial)
        \/ cmd = "stop_mirror" /\ Truthy(serial) /\ serial \in DOMAIN processes

\* _handle_cmd awaits: create_subprocess_exec in start_mirror, proc.wait in
\* stop_mirror.
Awaits(r) ==
    LET cmd == Get(r, "cmd")
        serial == Get(r, "serial")
    IN  \/ cmd = "start_mirror" /\ Truthy(serial) /\ serial \notin DOMAIN processes
        \/ cmd = "stop_mirror" /\ Truthy(serial) /\ serial \in DOMAIN processes

\* the reply sent as _handle_cmd returned it, the request's id not copied
handle_client_resp_noid(r, resp) == resp

\* resp = await self._handle_cmd(req); if ... "id" in req and "id" not in resp
handle_client_resp(r, resp) ==
    IF Has(r, "id") /\ ~Has(resp, "id") THEN Put(resp, "id", r.id) ELSE resp

\* The except and finally of _handle_client: writer.close(), clients.discard.
\* cl is self.clients before it.
handler_end(cl, c) ==
    /\ pc' = [pc EXCEPT ![c] = "done"]
    /\ closed' = [closed EXCEPT ![c] = TRUE]
    /\ clients' = cl \ {c}

\* _send: writer.write, await writer.drain().  o and cl are out and
\* self.clients before it.  A drain that returns leaves the handler at its
\* next readline.  A drain that raises (ConnectionResetError,
\* BrokenPipeError) closes the writer and discards it from self.clients; the
\* connection is lost ("lost"), so the handler's next readline returns b""
\* and the handler ends, which closes and discards once more.
send(o, cl, c, resp) ==
    /\ out' = Written(o, c, resp)
    /\ \E raises \in DrainRaises(c) :
          IF raises
          THEN /\ pc' = [pc EXCEPT ![c] = "lost"]
               /\ closed' = [closed EXCEPT ![c] = TRUE]
               /\ clients' = cl \ {c}
          ELSE /\ pc' = [pc EXCEPT ![c] = "read"]
               /\ clients' = cl
               /\ UNCHANGED closed

RECURSIVE SumTo(_, _)
SumTo(f, n) == IF n = 0 THEN 0 ELSE f[n] + SumTo(f, n - 1)
LinesRead(n) == SumTo(n, NumConns)

\* line = await reader.readline() returns a line; on a connection that is
\* lost it returns b"" (handle_client_eof).
readline(c, line) ==
    /\ pc[c] = "read"
    /\ ~closed[c]
    /\ LinesRead(nreq) < MaxReqs
    /\ nreq' = [nreq EXCEPT ![c] = @ + 1]
    /\ req' = [req EXCEPT ![c] = line]
    /\ subscribed' = IF line.kind = "object" /\ Get(line.obj, "cmd") = "subscribe"
                     THEN subscribed \cup {c}
                     ELSE subscribed

\* out when a line has been read on c: the next exchange begins
Fresh(c) == [out EXCEPT ![c] = <<>>]

\* ------------------------------------------------------------------ connections
\* _handle_client registering every connection as a subscriber when it connects
accept_registers(c) ==
    /\ pc[c] = "none"
    /\ \A d \in Conns : d < c => pc[d] # "none"
    /\ pc' = [pc EXCEPT ![c] = "read"]
    /\ clients' = clients \cup {c}
    /\ UNCHANGED <<ext_vars, held, req, closed, out, reg_vars, sup_vars, bc, nreq, subscribed>>

accept(c) ==
    /\ pc[c] = "none"
    /\ \A d \in Conns : d < c => pc[d] # "none"
    /\ pc' = [pc EXCEPT ![c] = "read"]
    /\ UNCHANGED <<ext_vars, held, req, closed, clients, out, reg_vars, sup_vars, bc, nreq, subscribed>>

\* readline returns b"": break, finally
handle_client_eof(c) ==
    /\ pc[c] = "read"
    /\ handler_end(clients, c)
    /\ UNCHANGED <<ext_vars, held, req, out, reg_vars, sup_vars, bc, nreq, subscribed>>

\* json.loads raises
handle_client_invalid_json(c, line) ==
    /\ readline(c, line)
    /\ line.kind = "text"
    /\ send(Fresh(c), clients, c, ErrorReply("invalid_json"))
    /\ UNCHANGED <<ext_vars, held, reg_vars, sup_vars, bc>>

\* the request makes the handler raise: except Exception, finally
handle_client_raise(c, line) ==
    /\ readline(c, line)
    /\ line.kind # "text"
    /\ Raises(line)
    /\ handler_end(clients, c)
    /\ out' = Fresh(c)
    /\ UNCHANGED <<ext_vars, held, reg_vars, sup_vars, bc>>

\* else: unknown_request
handle_client_no_cmd(c, line) ==
    /\ readline(c, line)
    /\ line.kind # "text"
    /\ ~Raises(line)
    /\ ~Contains(line, "cmd")
    /\ send(Fresh(c), clients, c, WithId(line.obj, ErrorReply("unknown_request")))
    /\ UNCHANGED <<ext_vars, held, reg_vars, sup_vars, bc>>

\* subscribe that answers with the state and does not add the writer to
\* self.clients
handle_client_subscribe_unregistered(c, line) ==
    /\ readline(c, line)
    /\ line.kind = "object"
    /\ Get(line.obj, "cmd") = "subscribe"
    /\ send(Fresh(c), clients, c, WithId(line.obj,
            [code |-> 0, status |-> "ok", type |-> "state", devices |-> Values(devices)]))
    /\ UNCHANGED <<ext_vars, held, reg_vars, sup_vars, bc>>

\* if req.get("cmd") == "subscribe"
handle_client_subscribe(c, line) ==
    /\ readline(c, line)
    /\ line.kind = "object"
    /\ Get(line.obj, "cmd") = "subscribe"
    /\ send(Fresh(c), clients \cup {c}, c, WithId(line.obj,
            [code |-> 0, status |-> "ok", type |-> "state", devices |-> Values(devices)]))
    /\ UNCHANGED <<ext_vars, held, reg_vars, sup_vars, bc>>

\* resp = await self._handle_cmd(req), for a command that awaits nothing
handle_client_cmd(c, line) ==
    /\ readline(c, line)
    /\ line.kind = "object"
    /\ Has(line.obj, "cmd")
    /\ Get(line.obj, "cmd") # "subscribe"
    /\ ~Awaits(line.obj)
    /\ send(Fresh(c), clients, c, handle_client_resp(line.obj, handle_cmd(line.obj)))
    /\ UNCHANGED <<ext_vars, held, reg_vars, sup_vars, bc>>

\* ------------------------------------------------------------------ broadcast
\* _broadcast up to its first await: list(self.clients), write to the first
\* one, suspend in its drain.  The order of a set's elements is not fixed.
\* With no subscriber the loop body never runs and nothing is awaited.
broadcast(t, m) ==
    IF clients = {}
    THEN UNCHANGED <<out, bc>>
    ELSE \E w \in clients :
            /\ out' = Written(out, w, m)
            /\ bc' = Put(bc, t, [msg |-> m, to |-> clients, cur |-> w,
                                 todo |-> clients \ {w}, rm |-> {}])

\* _broadcast without the try around the write and the drain: the exception
\* of a failed drain ends the loop
broadcast_resume_abort(t) ==
    \E raises \in DrainRaises(bc[t].cur) :
        LET b == bc[t]
        IN  /\ UNCHANGED closed
            /\ IF b.todo # {} /\ ~raises
               THEN /\ \E w \in b.todo :
                         /\ out' = Written(out, w, b.msg)
                         /\ bc' = [bc EXCEPT ![t] = [msg |-> b.msg, to |-> b.to, cur |-> w,
                                                     todo |-> b.todo \ {w}, rm |-> b.rm]]
                    /\ UNCHANGED clients
               ELSE /\ clients' = clients \ b.rm
                    /\ bc' = Pop(bc, t)
                    /\ UNCHANGED out

\* _broadcast resumes from the drain of b.cur: on an exception w.close() and
\* to_remove.append(w); then the next write and drain, or after the last one
\* the discard of to_remove.
broadcast_resume(t) ==
    \E raises \in DrainRaises(bc[t].cur) :
        LET b == bc[t]
            rm == IF raises THEN b.rm \cup {b.cur} ELSE b.rm
        IN  /\ closed' = IF raises THEN [closed EXCEPT ![b.cur] = TRUE] ELSE closed
            /\ IF b.todo # {}
               THEN /\ \E w \in b.todo :
                         /\ out' = Written(out, w, b.msg)
                         /\ bc' = [bc EXCEPT ![t] = [msg |-> b.msg, to |-> b.to, cur |-> w,
                                                     todo |-> b.todo \ {w}, rm |-> rm]]
                    /\ UNCHANGED clients
               ELSE /\ clients' = clients \ rm
                    /\ bc' = Pop(bc, t)
                    /\ UNCHANGED out

\* ------------------------------------------------------------------ supervisor
\* start_mirror up to await asyncio.create_subprocess_exec
handle_cmd_start_mirror(c, line) ==
    /\ readline(c, line)
    /\ line.kind = "object"
    /\ Get(line.obj, "cmd") = "start_mirror"
    /\ Awaits(line.obj)
    /\ pc' = [pc EXCEPT ![c] = "spawn"]
    /\ out' = Fresh(c)
    /\ UNCHANGED <<ext_vars, held, closed, clients, reg_vars, sup_vars, bc>>

\* create_subprocess_exec returns the child: self.processes[serial] = proc,
\* ensure_future(self._monitor_process(serial, proc)), the reply with its pid
start_mirror_spawned(c) ==
    /\ pc[c] = "spawn"
    /\ Len(procs) < MaxProcs
    /\ LET serial == req[c].obj.serial
           pid == Len(procs) + 1
       IN  /\ procs' = Append(procs, [serial |-> serial, state |-> "running",
                                      returncode |-> None, sig |-> "none", mon |-> "wait"])
           /\ processes' = Put(processes, serial, pid)
           /\ send(out, clients, c, handle_client_resp(req[c].obj,
                                  [code |-> 0, status |-> "ok", pid |-> pid]))
    /\ UNCHANGED <<ext_vars, held, req, reg_vars, bc, nreq, subscribed>>

\* create_subprocess_exec raises
start_mirror_failed(c) ==
    /\ pc[c] = "spawn"
    /\ send(out, clients, c, handle_client_resp(req[c].obj, ErrorReply("start_failed")))
    /\ UNCHANGED <<ext_vars, held, req, reg_vars, sup_vars, bc, nreq, subscribed>>

\* stop_mirror up to await asyncio.wait_for(proc.wait(), timeout=2.0):
\* proc.terminate() signals a running child
handle_cmd_stop_mirror(c, line) ==
    /\ readline(c, line)
    /\ line.kind = "object"
    /\ Get(line.obj, "cmd") = "stop_mirror"
    /\ Awaits(line.obj)
    /\ LET pid == processes[line.obj.serial]
       IN  /\ procs' = IF procs[pid].state = "running"
                       THEN [procs EXCEPT ![pid].sig = "term"]
                       ELSE procs
           /\ held' = [held EXCEPT ![c] = pid]
    /\ pc' = [pc EXCEPT ![c] = "stopwait"]
    /\ out' = Fresh(c)
    /\ UNCHANGED <<ext_vars, closed, clients, reg_vars, processes, bc>>

\* proc.terminate() raises ProcessLookupError: the child has exited and its
\* transport is closed, and its monitor has not yet removed it from the map
handle_cmd_stop_failed(c, line) ==
    /\ readline(c, line)
    /\ line.kind = "object"
    /\ Get(line.obj, "cmd") = "stop_mirror"
    /\ Awaits(line.obj)
    /\ procs[processes[line.obj.serial]].state = "exited"
    /\ send(Fresh(c), clients, c, handle_client_resp(line.obj, ErrorReply("stop_failed")))
    /\ UNCHANGED <<ext_vars, held, reg_vars, sup_vars, bc>>

\* wait_for returns: the child has exited
stop_mirror_waited(c) ==
    /\ pc[c] \in {"stopwait", "killwait"}
    /\ procs[held[c]].state = "exited"
    /\ send(out, clients, c,
            handle_client_resp(req[c].obj, [code |-> 0, status |-> "ok"]))
    /\ UNCHANGED <<ext_vars, held, req, reg_vars, sup_vars, bc, nreq, subscribed>>

\* asyncio.TimeoutError: proc.kill(); await proc.wait()
stop_mirror_timeout(c) ==
    /\ pc[c] = "stopwait"
    /\ procs[held[c]].state = "running"
    /\ procs' = [procs EXCEPT ![held[c]].sig = "kill"]
    /\ pc' = [pc EXCEPT ![c] = "killwait"]
    /\ UNCHANGED <<ext_vars, held, req, closed, clients, out, reg_vars, processes, bc, nreq, subscribed>>

\* The child exits, by itself or on a signal.
proc_exit(pid, rc) ==
    /\ pid \in DOMAIN procs
    /\ procs[pid].state = "running"
    /\ rc \in RetCodes
    /\ procs' = [procs EXCEPT ![pid].state = "exited", ![pid].returncode = rc]
    /\ UNCHANGED <<ext_vars, held, pc, req, closed, clients, out, reg_vars, processes, bc, nreq, subscribed>>

\* _monitor_process without the pop of its finally
monitor_process_tracked(pid) ==
    /\ pid \in DOMAIN procs
    /\ procs[pid].state = "exited"
    /\ procs[pid].mon = "wait"
    /\ broadcast(<<"mon", pid>>,
                 [type |-> "process", action |-> "exit", serial |-> procs[pid].serial,
                  returncode |-> procs[pid].returncode])
    /\ procs' = [procs EXCEPT ![pid].mon = IF clients = {} THEN "done" ELSE "broadcast"]
    /\ UNCHANGED <<ext_vars, held, pc, req, closed, clients, reg_vars, nreq, subscribed, processes>>

\* _monitor_process resumes from await proc.wait(): finally pop the serial
\* and broadcast the exit
monitor_process(pid) ==
    /\ pid \in DOMAIN procs
    /\ procs[pid].state = "exited"
    /\ procs[pid].mon = "wait"
    /\ processes' = Pop(processes, procs[pid].serial)
    /\ broadcast(<<"mon", pid>>,
                 [type |-> "process", action |-> "exit", serial |-> procs[pid].serial,
                  returncode |-> procs[pid].returncode])
    /\ procs' = [procs EXCEPT ![pid].mon = IF clients = {} THEN "done" ELSE "broadcast"]
    /\ UNCHANGED <<ext_vars, held, pc, req, closed, clients, reg_vars, nreq, subscribed>>

\* the monitor's broadcast resumes from a drain
monitor_broadcast(pid) ==
    /\ <<"mon", pid>> \in DOMAIN bc
    /\ broadcast_resume(<<"mon", pid>>)
    /\ procs' = IF bc[<<"mon", pid>>].todo = {}
                THEN [procs EXCEPT ![pid].mon = "done"]
                ELSE procs
    /\ UNCHANGED <<ext_vars, held, pc, req, reg_vars, processes, nreq, subscribed>>

\* ------------------------------------------------------------------ registry
MaxEvents == 2         \* udev events delivered

\* The info dict _udev_callback builds from a udev device.
UdevInfo(action, serial, vendor, product) ==
    [action |-> action, serial |-> serial, vendor_id |-> vendor, product_id |-> product,
     properties |-> "udev"]

\* The info dict _rescan_adb builds from a line of adb devices -l.
AdbInfo(serial, props) ==
    [action |-> "adb_present", serial |-> serial, adb_props |-> props,
     vendor_id |-> None, product_id |-> None, properties |-> "{}"]

\* serial.startswith("/dev/")
IsDevPath(serial) == serial \in {"/dev/bus/usb/001/002", "/dev/bus/usb/001/003"}

\* the key without the fallback to the vendor and the product
device_key_serial_only(info) ==
    IF info.serial # "" /\ ~IsDevPath(info.serial) THEN info.serial ELSE None

\* device_key of _on_device_event_async: the serial, or the composite key
\* when the serial is empty or a device path; None when there is neither
device_key(info) ==
    IF info.serial # "" /\ ~IsDevPath(info.serial) THEN info.serial
    ELSE IF info.vendor_id \notin {None, ""} /\ info.product_id \notin {None, ""}
         THEN "usb:" \o info.vendor_id \o ":" \o info.product_id
         ELSE None

\* asyncio.ensure_future(self._rescan_adb()): one more task
ensure_rescan(sc, n) == Put(sc, n.scans + 1, [at |-> "adb"])

\* _udev_callback, on the observer's thread: the event is put on the queue
udev_callback(info) ==
    /\ nev.events < MaxEvents
    /\ nev' = [nev EXCEPT !.events = @ + 1]
    /\ queue' = Append(queue, info)
    /\ UNCHANGED <<ext_vars, conn_vars, sup_vars, clients, out, bc, devices, evt, last_added_device, scans>>

\* the identifier-less remove with the record left in the registry
pop_last_added_kept(d, last) == d

\* removed_info = self.devices.pop(self.last_added_device, {})
pop_last_added(d, last) == Pop(d, last)

\* the test of the add branch with bind left out
Adding_add_only(action) == action = "add"

\* action in ("add", "bind")
Adding(action) == action \in {"add", "bind"}
\* action in ("remove", "unbind")
Removing(action) == action \in {"remove", "unbind"}

\* _process_event_queue resumes from queue.get(): _on_device_event_async
\* up to its await of _broadcast, or to its end when nothing is awaited
on_device_event ==
    /\ evt.at = "get"
    /\ queue # <<>>
    /\ queue' = Tail(queue)
    /\ LET info == Head(queue)
           key == device_key(info)
           removing == Removing(info.action)
           adding == Adding(info.action)
           suspended(then) == IF clients = {} THEN [at |-> "get"]
                              ELSE [at |-> "broadcast", then |-> then]
       IN  IF key = None
           THEN IF removing
                THEN IF last_added_device # None
                     THEN \* remove the last added device
                          /\ devices' = pop_last_added(devices, last_added_device)
                          /\ broadcast(<<"evt", 0>>,
                                 IF last_added_device \in DOMAIN devices
                                 THEN Put(Put(devices[last_added_device], "action", "remove"),
                                          "type", "device")
                                 ELSE [type |-> "device", action |-> "remove",
                                       serial |-> last_added_device])
                          /\ evt' = suspended("forget")
                          /\ IF clients = {}
                             THEN /\ last_added_device' = None
                                  /\ scans' = ensure_rescan(scans, nev)
                                  /\ nev' = [nev EXCEPT !.scans = @ + 1]
                             ELSE UNCHANGED <<last_added_device, scans, nev>>
                     ELSE \* a generic remove
                          /\ broadcast(<<"evt", 0>>, [type |-> "device", action |-> "remove",
                                               serial |-> ""])
                          /\ evt' = suspended("rescan")
                          /\ IF clients = {}
                             THEN /\ scans' = ensure_rescan(scans, nev)
                                  /\ nev' = [nev EXCEPT !.scans = @ + 1]
                             ELSE UNCHANGED <<scans, nev>>
                          /\ UNCHANGED <<devices, last_added_device>>
                ELSE \* an add with no identifier is skipped
                     UNCHANGED <<devices, evt, last_added_device, scans, nev, out, bc>>
           ELSE IF adding
                THEN /\ devices' = Put(devices, key, Put(info, "action", "add"))
                     /\ last_added_device' = key
                     /\ scans' = ensure_rescan(scans, nev)
                     /\ nev' = [nev EXCEPT !.scans = @ + 1]
                     /\ broadcast(<<"evt", 0>>, Put(Put(info, "action", "add"), "type", "device"))
                     /\ evt' = suspended("none")
                ELSE IF removing
                     THEN /\ devices' = Pop(devices, key)
                          /\ scans' = ensure_rescan(scans, nev)
                          /\ nev' = [nev EXCEPT !.scans = @ + 1]
                          /\ broadcast(<<"evt", 0>>, Put(Put(info, "action", "remove"),
                                                  "type", "device"))
                          /\ evt' = suspended("none")
                          /\ UNCHANGED last_added_device
                     ELSE UNCHANGED <<devices, evt, last_added_device, scans, nev, out, bc>>
    /\ UNCHANGED <<ext_vars, conn_vars, sup_vars, clients>>

\* the broadcast of _on_device_event_async resumes from a drain; after the
\* last one, what the handler does after its await
event_broadcast ==
    /\ <<"evt", 0>> \in DOMAIN bc
    /\ broadcast_resume(<<"evt", 0>>)
    /\ IF bc[<<"evt", 0>>].todo = {}
       THEN /\ evt' = [at |-> "get"]
            /\ last_added_device' = IF evt.then = "forget" THEN None ELSE last_added_device
            /\ IF evt.then \in {"forget", "rescan"}
               THEN /\ scans' = ensure_rescan(scans, nev)
                    /\ nev' = [nev EXCEPT !.scans = @ + 1]
               ELSE UNCHANGED <<scans, nev>>
       ELSE UNCHANGED <<evt, last_added_device, scans, nev>>
    /\ UNCHANGED <<ext_vars, held, pc, req, nreq, subscribed, sup_vars, devices, queue>>

\* _rescan_adb storing every scanned serial, whatever the registry holds
RescanUpserts_always(d, new_adb) == DOMAIN new_adb

\* _rescan_adb on the scan new_adb (serial -> adb_props).  The serials it
\* adds or updates: those not in the registry or not held as adb_present
RescanUpserts(d, new_adb) ==
    {s \in DOMAIN new_adb : s \notin DOMAIN d \/ Get(d[s], "action") # "adb_present"}

RescanAdded(d, new_adb) ==
    [k \in DOMAIN d \cup RescanUpserts(d, new_adb) |->
        IF k \in RescanUpserts(d, new_adb) THEN AdbInfo(k, new_adb[k]) ELSE d[k]]

\* the removal without the test of the action: every entry not in the scan
RescanGone_any(d, new_adb) ==
    {k \in DOMAIN RescanAdded(d, new_adb) : k \notin DOMAIN new_adb}

\* the adb_present entries that disappeared from the scan
RescanGone(d, new_adb) ==
    {k \in DOMAIN RescanAdded(d, new_adb) :
        Get(RescanAdded(d, new_adb)[k], "action") = "adb_present" /\ k \notin DOMAIN new_adb}

Rescanned(d, new_adb) ==
    [k \in DOMAIN RescanAdded(d, new_adb) \ RescanGone(d, new_adb) |->
        RescanAdded(d, new_adb)[k]]

\* changed
RescanChanged(d, new_adb) == RescanUpserts(d, new_adb) # {} \/ RescanGone(d, new_adb) # {}

\* _rescan_adb resumes from proc.communicate() with the scan's output:
\* apply it, and broadcast the state if something changed
rescan_adb(i, new_adb) ==
    /\ i \in DOMAIN scans
    /\ scans[i].at = "adb"
    /\ devices' = Rescanned(devices, new_adb)
    /\ IF RescanChanged(devices, new_adb)
       THEN /\ broadcast(<<"scan", i>>, [type |-> "state", devices |-> Values(devices')])
            /\ scans' = IF clients = {} THEN Pop(scans, i)
                        ELSE [scans EXCEPT ![i] = [at |-> "broadcast"]]
       ELSE /\ scans' = Pop(scans, i)
            /\ UNCHANGED <<out, bc>>
    /\ UNCHANGED <<ext_vars, conn_vars, sup_vars, clients, queue, evt, last_added_device, nev>>

\* a failure that ends every pending rescan with its own
rescan_failed_all(i) ==
    /\ i \in DOMAIN scans
    /\ scans[i].at = "adb"
    /\ scans' = [j \in {k \in DOMAIN scans : scans[k].at # "adb"} |-> scans[j]]
    /\ UNCHANGED <<ext_vars, conn_vars, sup_vars, clients, out, bc, devices, queue, evt,
                   last_added_device, nev>>

\* adb cannot be started, or times out: except Exception
rescan_failed(i) ==
    /\ i \in DOMAIN scans
    /\ scans[i].at = "adb"
    /\ scans' = Pop(scans, i)
    /\ UNCHANGED <<ext_vars, conn_vars, sup_vars, clients, out, bc, devices, queue, evt,
                   last_added_device, nev>>

\* the broadcast of _rescan_adb resumes from a drain
rescan_broadcast(i) ==
    /\ <<"scan", i>> \in DOMAIN bc
    /\ broadcast_resume(<<"scan", i>>)
    /\ scans' = IF bc[<<"scan", i>>].todo = {} THEN Pop(scans, i) ELSE scans
    /\ UNCHANGED <<ext_vars, held, pc, req, nreq, subscribed, sup_vars, devices, queue, evt, last_added_device, nev>>

\* ------------------------------------------------------------------ Spec
\* The process supervisor and its clients.
SupConns == 1..NumCmdConns

SupNext ==
    \/ \E c \in SupConns : accept(c)
    \/ \E c \in Conns : handle_client_eof(c)
    \/ \E c \in Conns, line \in SupLines : handle_client_subscribe(c, line)
    \/ \E c \in Conns, line \in SupLines : handle_client_cmd(c, line)
    \/ \E c \in Conns, line \in SupLines : handle_cmd_start_mirror(c, line)
    \/ \E c \in Conns : start_mirror_spawned(c)
    \/ \E c \in Conns : start_mirror_failed(c)
    \/ \E c \in Conns, line \in SupLines : handle_cmd_stop_mirror(c, line)
    \/ \E c \in Conns, line \in SupLines : handle_cmd_stop_failed(c, line)
    \/ \E c \in Conns : stop_mirror_waited(c)
    \/ \E c \in Conns : stop_mirror_timeout(c)
    \/ \E pid \in 1..MaxProcs, rc \in RetCodes : proc_exit(pid, rc)
    \/ \E pid \in 1..MaxProcs : monitor_process(pid)
    \/ \E pid \in 1..MaxProcs : monitor_broadcast(pid)

SupSpec == Init /\ [][SupNext]_vars

\* The supervisor with the event loop's scheduling: a monitor task whose
\* await proc.wait() is over is resumed, and so is a broadcast whose drain
\* has returned or raised.
FairSupSpec ==
    /\ SupSpec
    /\ \A pid \in 1..MaxProcs : WF_vars(monitor_process(pid))
    /\ \A pid \in 1..MaxProcs : WF_vars(monitor_broadcast(pid))

\* The broadcast hub: subscribers, one-shot clients, connections that fail,
\* and the udev events and adb rescans that are broadcast.
HubLines == {ObjLine(cmd, None, None) : cmd \in {"subscribe", "ping"}}
HubEvents == {UdevInfo(a, "X", None, None) : a \in {"add", "remove"}}
HubScans == {<<>>, ("X" :> "model:Pixel")}

HubMaxEvents == 1      \* udev events delivered under HubSpec

HubNext ==
    \/ \E c \in Conns : accept(c)
    \/ \E c \in Conns : handle_client_eof(c)
    \/ \E c \in Conns, line \in HubLines : handle_client_subscribe(c, line)
    \/ \E c \in Conns, line \in HubLines : handle_client_cmd(c, line)
    \/ \E info \in HubEvents : nev.events < HubMaxEvents /\ udev_callback(info)
    \/ on_device_event
    \/ event_broadcast
    \/ \E i \in 1..MaxEvents, new_adb \in HubScans : rescan_adb(i, new_adb)
    \/ \E i \in 1..MaxEvents : rescan_failed(i)
    \/ \E i \in 1..MaxEvents : rescan_broadcast(i)

HubSpec == Init /\ [][HubNext]_vars

\* The command router: every kind of line, with and without an id.
ProtoLines ==
    {ObjLine(cmd, id, None) : cmd \in (Cmds \ SerialCmds) \cup {None}, id \in Ids \cup {None}}
    \cup {ObjLine(cmd, id, s) : cmd \in SerialCmds, id \in Ids \cup {None},
                               s \in {None, "", "X"}}
    \cup {OtherLine(k) : k \in OtherKinds}

ProtoReqs == 2         \* lines read, over all connections, under ProtoSpec

ProtoNext ==
    \/ \E c \in SupConns : accept(c)
    \/ \E c \in Conns : handle_client_eof(c)
    \/ \E c \in Conns, line \in ProtoLines :
        LinesRead(nreq) < ProtoReqs /\ handle_client_invalid_json(c, line)
    \/ \E c \in Conns, line \in ProtoLines :
        LinesRead(nreq) < ProtoReqs /\ handle_client_raise(c, line)
    \/ \E c \in Conns, line \in ProtoLines :
        LinesRead(nreq) < ProtoReqs /\ handle_client_no_cmd(c, line)
    \/ \E c \in Conns, line \in ProtoLines :
        LinesRead(nreq) < ProtoReqs /\ handle_client_subscribe(c, line)
    \/ \E c \in Conns, line \in ProtoLines :
        LinesRead(nreq) < ProtoReqs /\ handle_client_cmd(c, line)
    \/ \E c \in Conns, line \in ProtoLines :
        LinesRead(nreq) < ProtoReqs /\ handle_cmd_start_mirror(c, line)
    \/ \E c \in Conns : start_mirror_spawned(c)
    \/ \E c \in Conns : start_mirror_failed(c)
    \/ \E c \in Conns, line \in ProtoLines :
        LinesRead(nreq) < ProtoReqs /\ handle_cmd_stop_mirror(c, line)
    \/ \E c \in Conns, line \in ProtoLines :
        LinesRead(nreq) < ProtoReqs /\ handle_cmd_stop_failed(c, line)
    \/ \E c \in Conns : stop_mirror_waited(c)
    \/ \E c \in Conns : stop_mirror_timeout(c)
    \/ \E pid \in 1..MaxProcs, rc \in RetCodes : proc_exit(pid, rc)
    \/ \E pid \in 1..MaxProcs : monitor_process(pid)
    \/ \E pid \in 1..MaxProcs : monitor_broadcast(pid)

ProtoSpec == Init /\ [][ProtoNext]_vars

\* ------------------------------------------------------------------ serial keys
\* A serial is a sequence of characters; NoKey is the value None, which is no
\* string.
MaxLen == 3            \* characters of a serial given to normalize
Chars == {"a", "A", "1", "-"}
NoKey == <<None>>
SerialsUpTo(n) == UNION {[1..k -> Chars] : k \in 0..n}

\* str.lower(), one character
Lower(ch) == IF ch = "A" THEN "a" ELSE ch
\* the characters re.sub(r"[^0-9a-z]", "", ...) keeps
Kept(ch) == ch \in {"a", "1"}

\* _norm_serial of the main window with the lowercasing left out
norm_serial_cased(x) ==
    IF x = NoKey \/ x = <<>> THEN NoKey
    ELSE SelectSeq(x, Kept)

\* _norm_serial of the main window: None for None and for "", else
\* re.sub(r"[^0-9a-z]", "", str(s).lower())
norm_serial(x) ==
    IF x = NoKey \/ x = <<>> THEN NoKey
    ELSE SelectSeq([i \in 1..Len(x) |-> Lower(x[i])], Kept)

\* _norm of _canonicalize_adb_devices in the tray service: the same text
canon_norm(x) ==
    IF x = NoKey \/ x = <<>> THEN NoKey
    ELSE SelectSeq([i \in 1..Len(x) |-> Lower(x[i])], Kept)

\* The two serials are normalized, each by one of the two functions, and the
\* key of the first once more.
normalize ==
    /\ Has(norm, "s")
    /\ ~Has(norm, "ks")
    /\ norm' = [s |-> norm.s, t |-> norm.t,
                ks |-> norm_serial(norm.s), kt |-> canon_norm(norm.t),
                kks |-> norm_serial(norm_serial(norm.s)),
                kkt |-> canon_norm(canon_norm(norm.t))]
    /\ UNCHANGED <<server_vars, tool, cli, call, scr>>

NormInit ==
    /\ ServerInit
    /\ tool = ToolIdle
    /\ cli = ClientIdle
    /\ call = CallIdle
    /\ scr = ManagerIdle
    /\ \E x, y \in SerialsUpTo(MaxLen) : norm = [s |-> x, t |-> y]

NormNext == normalize

NormSpec == NormInit /\ [][NormNext]_vars

\* ------------------------------------------------------------------ registry spec
\* The device registry: udev events of every action and adb scans, for two
\* serials that differ only in letter case and punctuation.
RegSerials == {"A-1", "a1"}

\* str(s): the characters of a serial
Spell(s) ==
    IF s = "A-1" THEN <<"A", "-", "1">>
    ELSE IF s = "a1" THEN <<"a", "1">>
    ELSE <<>>

RegActions == {"add", "bind", "remove", "unbind", "change"}
RegEvents ==
    {UdevInfo(a, s, "18d1", "4ee7") : a \in RegActions, s \in RegSerials}
    \cup {UdevInfo(a, "/dev/bus/usb/001/002", None, None) : a \in RegActions}
    \cup {UdevInfo("add", "", "18d1", "4ee7"),
          UdevInfo("remove", "/dev/bus/usb/001/002", "18d1", "4ee7"),
          UdevInfo("add", "", "", "4ee7")}
RegScans == UNION {[S -> {"model:Pixel"}] : S \in SUBSET RegSerials}
NumRegConns == 1       \* connections under RegSpec
RegConns == 1..NumRegConns

RegNext ==
    \/ \E c \in RegConns : accept(c)
    \/ \E c \in Conns : handle_client_eof(c)
    \/ \E c \in Conns, line \in HubLines : handle_client_subscribe(c, line)
    \/ \E info \in RegEvents : udev_callback(info)
    \/ on_device_event
    \/ event_broadcast
    \/ \E i \in 1..MaxEvents, new_adb \in RegScans : rescan_adb(i, new_adb)
    \/ \E i \in 1..MaxEvents : rescan_failed(i)
    \/ \E i \in 1..MaxEvents : rescan_broadcast(i)

RegSpec == Init /\ [][RegNext]_vars

\* The registry when the bridge reports one device whose properties differ
\* from one scan to the next: the scan of task i reads ScanOf(i), and every
\* scan succeeds.
ScanSerial == "A-1"
ScanOf(i) == [k \in {ScanSerial} |-> IF i = 1 THEN "model:Pixel" ELSE "model:Nexus"]
ScanEvents == {UdevInfo(a, "a1", "18d1", "4ee7") : a \in {"add", "remove"}}

ScanNext ==
    \/ \E c \in RegConns : accept(c)
    \/ \E c \in Conns : handle_client_eof(c)
    \/ \E c \in Conns, line \in HubLines : handle_client_subscribe(c, line)
    \/ \E info \in ScanEvents : udev_callback(info)
    \/ on_device_event
    \/ event_broadcast
    \/ \E i \in 1..MaxEvents : rescan_adb(i, ScanOf(i))
    \/ \E i \in 1..MaxEvents : rescan_broadcast(i)

ScanSpec == Init /\ [][ScanNext]_vars

\* The registry when the device of the bridge is unplugged between two
\* scans: the scan of task 1 still lists it, the scan of a later task finds
\* no device; the scans end in any order.
LaterScanOf(i) == IF i = 1 THEN ScanOf(1) ELSE <<>>

StaleNext ==
    \/ \E c \in RegConns : accept(c)
    \/ \E c \in Conns : handle_client_eof(c)
    \/ \E c \in Conns, line \in HubLines : handle_client_subscribe(c, line)
    \/ \E info \in ScanEvents : udev_callback(info)
    \/ on_device_event
    \/ event_broadcast
    \/ \E i \in 1..MaxEvents : rescan_adb(i, LaterScanOf(i))
    \/ \E i \in 1..MaxEvents : rescan_broadcast(i)

StaleSpec == Init /\ [][StaleNext]_vars

\* The registry on a host where adb devices -l never answers: it cannot be
\* started, or it runs into the timeout of three seconds.
NoBridgeNext ==
    \/ \E c \in RegConns : accept(c)
    \/ \E c \in Conns : handle_client_eof(c)
    \/ \E c \in Conns, line \in HubLines : handle_client_subscribe(c, line)
    \/ \E info \in RegEvents : udev_callback(info)
    \/ on_device_event
    \/ event_broadcast
    \/ \E i \in 1..MaxEvents : rescan_failed(i)

NoBridgeSpec == Init /\ [][NoBridgeNext]_vars

\* The server from the middle of start(): the devices udev lists have been
\* stored under their serial (ID_SERIAL, SERIAL or the device node), the
\* observer thread has been started, and self.event_queue is still None
\* (evt.at = "boot"); start() does not await before it has created the queue
\* and the task that drains it, so no other task runs until then.
BootDevs ==
    {UdevInfo("present", "A-1", "18d1", "4ee7"),
     UdevInfo("present", "/dev/bus/usb/001/002", None, None),
     UdevInfo("present", "/dev/bus/usb/001/003", "18d1", "4ee7")}
Enumerated(S) == [k \in {d.serial : d \in S} |-> CHOOSE d \in S : d.serial = k]
BootEvents ==
    {UdevInfo("remove", d.serial, d.vendor_id, d.product_id) : d \in BootDevs}
    \cup {UdevInfo("add", "a1", "18d1", "4ee7")}

BootInit ==
    /\ pc = [c \in Conns |-> "none"]
    /\ req = [c \in Conns |-> NoLine]
    /\ held = [c \in Conns |-> 0]
    /\ closed = [c \in Conns |-> FALSE]
    /\ clients = {}
    /\ out = [c \in Conns |-> <<>>]
    /\ devices \in {Enumerated(S) : S \in SUBSET BootDevs}
    /\ processes = <<>>
    /\ procs = <<>>
    /\ bc = <<>>
    /\ nreq = [c \in Conns |-> 0]
    /\ subscribed = {}
    /\ queue = <<>>
    /\ evt = [at |-> "boot"]
    /\ last_added_device = None
    /\ scans = <<>>
    /\ nev = [events |-> 0, scans |-> 0]
    /\ norm = <<>>
    /\ tool = ToolIdle
    /\ cli = ClientIdle
    /\ call = CallIdle
    /\ scr = ManagerIdle

\* _udev_callback while self.event_queue is None: self.event_queue.put
\* raises AttributeError, which the callback's except logs
udev_callback_boot(info) ==
    /\ evt.at = "boot"
    /\ nev.events < MaxEvents
    /\ nev' = [nev EXCEPT !.events = @ + 1]
    /\ UNCHANGED <<ext_vars, conn_vars, sup_vars, clients, out, bc, devices, queue, evt,
                   last_added_device, scans>>

\* self.event_queue = asyncio.Queue(); create_task(self._process_event_queue())
start_event_queue ==
    /\ evt.at = "boot"
    /\ evt' = [at |-> "get"]
    /\ UNCHANGED <<ext_vars, conn_vars, sup_vars, clients, out, bc, devices, queue,
                   last_added_device, scans, nev>>

BootNext ==
    \/ \E info \in BootEvents : udev_callback_boot(info)
    \/ start_event_queue
    \/ evt.at # "boot" /\ \E c \in RegConns : accept(c)
    \/ \E c \in Conns : handle_client_eof(c)
    \/ \E c \in Conns, line \in HubLines : handle_client_subscribe(c, line)
    \/ evt.at # "boot" /\ \E info \in BootEvents : udev_callback(info)
    \/ on_device_event
    \/ event_broadcast
    \/ \E i \in 1..MaxEvents : rescan_failed(i)

BootSpec == BootInit /\ [][BootNext]_vars

\* The loop runs its tasks: start() goes on, and the task that drains the
\* queue is resumed when there is an event or when its drain is over.
FairBootSpec ==
    /\ BootSpec
    /\ WF_vars(start_event_queue)
    /\ WF_vars(on_device_event)
    /\ WF_vars(event_broadcast)

\* ------------------------------------------------------------------ packaged helper
\* src/aurynk/tools/aurynk_udev_proxy.py.  tool.devices is self.devices,
\* tool.calls the callbacks call_soon_threadsafe has queued on the loop,
\* tool.tasks the _broadcast coroutines ensure_future has scheduled,
\* tool.rescans the _rescan_adb tasks scheduled, tool.sent the messages
\* _broadcast has been run on.
ToolMaxEvents == 3     \* udev events delivered to the helper
ToolEvents == {UdevInfo(a, "X", None, None) : a \in {"add", "remove", "bind"}}

\* _udev_callback, on the observer's thread
tool_udev_callback(info) ==
    /\ tool.events < ToolMaxEvents
    /\ tool' = [tool EXCEPT !.events = @ + 1, !.calls = Append(@, info)]
    /\ UNCHANGED <<server_vars, norm, cli, call, scr>>

\* _on_device_event, called by the loop: add stores the record; remove pops
\* it, schedules a rescan and schedules the broadcast of the event
tool_on_device_event ==
    /\ tool.calls # <<>>
    /\ LET info == Head(tool.calls)
           t == [tool EXCEPT !.calls = Tail(@)]
       IN  IF info.action = "add"
           THEN tool' = [t EXCEPT !.devices = Put(@, info.serial, info)]
           ELSE IF info.action = "remove"
           THEN tool' = [t EXCEPT !.devices = Pop(@, info.serial),
                                  !.rescans = @ + 1,
                                  !.tasks = Append(@, Put(info, "type", "device"))]
           ELSE tool' = t
    /\ UNCHANGED <<server_vars, norm, cli, call, scr>>

\* a scheduled _broadcast task runs
tool_broadcast ==
    /\ tool.tasks # <<>>
    /\ tool' = [tool EXCEPT !.tasks = Tail(@), !.sent = Append(@, Head(tool.tasks))]
    /\ UNCHANGED <<server_vars, norm, cli, call, scr>>

\* a scheduled _rescan_adb task ends with the scan new_adb: the same text as
\* the server's, the state is broadcast if something changed
tool_rescan_adb(new_adb) ==
    /\ tool.rescans > 0
    /\ tool' = [tool EXCEPT
                  !.rescans = @ - 1,
                  !.devices = Rescanned(@, new_adb),
                  !.sent = IF RescanChanged(tool.devices, new_adb)
                           THEN Append(@, [type |-> "state",
                                           devices |-> Values(Rescanned(tool.devices, new_adb))])
                           ELSE @]
    /\ UNCHANGED <<server_vars, norm, cli, call, scr>>

ToolNext ==
    \/ \E info \in ToolEvents : tool_udev_callback(info)
    \/ tool_on_device_event
    \/ tool_broadcast
    \/ \E new_adb \in HubScans : tool_rescan_adb(new_adb)

ToolSpec == Init /\ [][ToolNext]_vars

\* ------------------------------------------------------------------ client
\* src/aurynk/services/udev_proxy_client.py, the subscription thread.
\* cli.at is where _run_event_loop stands: "none" (no thread), "top" (the
\* outer while), "connected" (before sendall), "read" (the inner while),
\* "readline" (in f.readline()), "parsed" (a message decoded), "deliver" (in
\* the for over the callbacks), "wait" (in _stop_event.wait(backoff)),
\* "stopped" (the loop has ended).
\* cli.recv holds the messages decoded so far, cli.got[k] the calls made of
\* callback k, cli.since[k] the number of messages whose delivery had started
\* when k was registered.  cli.thread says that self._event_thread is set,
\* cli.join that stop() is in its join, cli.returned that stop() has returned
\* and cli.cut how many messages had been decoded by then; cli.later counts
\* the threads started after the first one that have not ended, cli.wrote
\* lists what was written to the subscription connections.
NumCallbacks == 2      \* callbacks registered
MaxAttempts == 4       \* connection attempts of the subscription thread
MaxLines == 3          \* lines the subscription thread reads
InitialBackoff == 1    \* 0.5 s, in half seconds
MaxBackoff == 16       \* 8.0 s, in half seconds
Msgs == {"m1", "m2"}
ConnectOutcomes == {"ok", "FileNotFoundError", "ConnectionRefusedError", "OSError"}
ReadOutcomes == Msgs \cup {"eof", "invalid", "OSError"}

Last(q) == q[Len(q)]
Started(c) == IF c.at = "parsed" THEN Len(c.recv) - 1 ELSE Len(c.recv)

\* subscribe(callback): append it, start the thread if there is none
subscribe(k) ==
    /\ \A i \in DOMAIN cli.callbacks : cli.callbacks[i] # k
    /\ ~cli.join
    /\ cli' = [cli EXCEPT !.callbacks = Append(@, k),
                          !.got = Put(@, k, <<>>),
                          !.since = Put(@, k, Started(cli)),
                          !.thread = TRUE,
                          !.at = IF @ = "none" THEN "top" ELSE @,
                          !.later = IF ~cli.thread /\ cli.at # "none" THEN @ + 1 ELSE @]
    /\ UNCHANGED <<server_vars, norm, tool, call, scr>>

\* stop(): self._stop_event.set(), then the join when there is a thread
client_stop ==
    /\ ~cli.stop
    /\ cli' = [cli EXCEPT !.stop = TRUE,
                          !.join = cli.thread,
                          !.returned = ~cli.thread,
                          !.cut = Len(cli.recv)]
    /\ UNCHANGED <<server_vars, norm, tool, call, scr>>

\* stop(): join(timeout=1.0) returns, the thread has ended or the second is
\* over; self._event_thread = None
client_stop_joined(timeout) ==
    /\ cli.join
    /\ timeout \/ cli.at = "stopped"
    /\ cli' = [cli EXCEPT !.join = FALSE, !.thread = FALSE, !.returned = TRUE,
                          !.cut = Len(cli.recv)]
    /\ UNCHANGED <<server_vars, norm, tool, call, scr>>

\* a thread started after the first one: the event is set for good, its
\* while ends at once
later_thread_exit ==
    /\ cli.later > 0
    /\ cli.stop
    /\ cli' = [cli EXCEPT !.later = @ - 1]
    /\ UNCHANGED <<server_vars, norm, tool, call, scr>>

\* while not self._stop_event.is_set(), the inner one: into f.readline()
run_event_loop_inner ==
    /\ cli.at = "read"
    /\ ~cli.stop
    /\ cli' = [cli EXCEPT !.at = "readline"]
    /\ UNCHANGED <<server_vars, norm, tool, call, scr>>

\* while not self._stop_event.is_set(), the outer and the inner one, when
\* the event is set
run_event_loop_exit ==
    /\ cli.at \in {"top", "read"}
    /\ cli.stop
    /\ cli' = [cli EXCEPT !.at = IF @ = "read" THEN "top" ELSE "stopped"]
    /\ UNCHANGED <<server_vars, norm, tool, call, scr>>

\* s.connect(sockpath): backoff = 0.5 on success; on an exception the handler
\* waits for backoff
run_event_loop_connect(outcome) ==
    /\ cli.at = "top"
    /\ ~cli.stop
    /\ cli.attempts < MaxAttempts
    /\ cli' = IF outcome = "ok"
              THEN [cli EXCEPT !.at = "connected", !.backoff = InitialBackoff,
                               !.attempts = @ + 1]
              ELSE [cli EXCEPT !.at = "wait", !.delay = cli.backoff, !.attempts = @ + 1]
    /\ UNCHANGED <<server_vars, norm, tool, call, scr>>

\* s.sendall(subscribe): on an exception, continue
run_event_loop_send(ok) ==
    /\ cli.at = "connected"
    /\ cli' = [cli EXCEPT !.at = IF ok THEN "read" ELSE "top",
                          !.wrote = IF ok THEN Append(@, "subscribe") ELSE @]
    /\ UNCHANGED <<server_vars, norm, tool, call, scr>>

\* line = f.readline() returns: end of file breaks, a line that is no JSON
\* is skipped, a message is decoded; an exception goes to except Exception
run_event_loop_readline(line) ==
    /\ cli.at = "readline"
    /\ cli.lines < MaxLines
    /\ cli' = IF line = "eof" THEN [cli EXCEPT !.at = "top", !.lines = @ + 1]
              ELSE IF line = "invalid" THEN [cli EXCEPT !.at = "read", !.lines = @ + 1]
              ELSE IF line = "OSError"
              THEN [cli EXCEPT !.at = "wait", !.delay = cli.backoff, !.lines = @ + 1]
              ELSE [cli EXCEPT !.at = "parsed", !.recv = Append(@, line), !.lines = @ + 1]
    /\ UNCHANGED <<server_vars, norm, tool, call, scr>>

\* for cb in list(self._callbacks): the copy is taken
run_event_loop_callbacks ==
    /\ cli.at = "parsed"
    /\ cli' = [cli EXCEPT !.snap = cli.callbacks,
                          !.at = IF cli.callbacks = <<>> THEN "read" ELSE "deliver"]
    /\ UNCHANGED <<server_vars, norm, tool, call, scr>>

\* cb(msg) without its try: an exception of the callback ends the for
run_event_loop_cb_unguarded(raises) ==
    /\ cli.at = "deliver"
    /\ LET k == Head(cli.snap)
           rest == IF raises THEN <<>> ELSE Tail(cli.snap)
       IN  cli' = [cli EXCEPT !.got[k] = Append(@, [msg |-> Last(cli.recv), raised |-> raises]),
                              !.snap = rest,
                              !.at = IF rest = <<>> THEN "read" ELSE "deliver"]
    /\ UNCHANGED <<server_vars, norm, tool, call, scr>>

\* cb(msg) in its try: the callback returns or raises, the loop goes on
run_event_loop_cb(raises) ==
    /\ cli.at = "deliver"
    /\ LET k == Head(cli.snap)
       IN  cli' = [cli EXCEPT !.got[k] = Append(@, [msg |-> Last(cli.recv), raised |-> raises]),
                              !.snap = Tail(@),
                              !.at = IF Tail(cli.snap) = <<>> THEN "read" ELSE "deliver"]
    /\ UNCHANGED <<server_vars, norm, tool, call, scr>>

\* self._stop_event.wait(backoff) returns; backoff = min(backoff * 2, 8.0)
run_event_loop_waited ==
    /\ cli.at = "wait"
    /\ cli' = [cli EXCEPT !.at = "top", !.delay = 0,
                          !.backoff = IF 2 * @ < MaxBackoff THEN 2 * @ ELSE MaxBackoff]
    /\ UNCHANGED <<server_vars, norm, tool, call, scr>>

ClientNext ==
    \/ \E k \in 1..NumCallbacks : subscribe(k)
    \/ client_stop
    \/ \E timeout \in BOOLEAN : client_stop_joined(timeout)
    \/ later_thread_exit
    \/ run_event_loop_inner
    \/ run_event_loop_exit
    \/ \E outcome \in ConnectOutcomes : run_event_loop_connect(outcome)
    \/ \E ok \in BOOLEAN : run_event_loop_send(ok)
    \/ \E line \in ReadOutcomes : run_event_loop_readline(line)
    \/ run_event_loop_callbacks
    \/ \E raises \in BOOLEAN : run_event_loop_cb(raises)
    \/ run_event_loop_waited

ClientSpec == Init /\ [][ClientNext]_vars

\* The subscription thread runs: a thread that can take a step takes one.
FairClientSpec ==
    /\ ClientSpec
    /\ WF_vars(run_event_loop_callbacks)
    /\ WF_vars(\E raises \in BOOLEAN : run_event_loop_cb(raises))

\* The subscription thread is scheduled at every step that does not wait for
\* the server: the tests of the two whiles, connect, sendall, the end of the
\* wait, the calls of the callbacks.  f.readline() returns when the server
\* writes or closes, which nothing obliges it to do.
LiveClientSpec ==
    /\ FairClientSpec
    /\ WF_vars(run_event_loop_exit)
    /\ WF_vars(run_event_loop_inner)
    /\ WF_vars(run_event_loop_waited)
    /\ WF_vars(\E outcome \in ConnectOutcomes : run_event_loop_connect(outcome))
    /\ WF_vars(\E ok \in BOOLEAN : run_event_loop_send(ok))

\* ------------------------------------------------------------------ send_command
\* UdevProxyClient.send_command, one call.  call.at is "idle", "read" (in
\* the while True), "returned" or "raised"; call.id is req_id, call.seen the
\* lines read, call.resp what is returned, call.error what is raised.
MaxCallLines == 3      \* lines one send_command call reads
FreshId == "1700000000-1"
CallCmds == {[cmd |-> "ping"], [cmd |-> "ping", id |-> "r1"]}
\* the lines of the connection: replies with and without id and code,
\* a line that is no JSON, the end of the stream, the socket's timeout
Replies ==
    {[code |-> c, id |-> i] : c \in {0, 1}, i \in {FreshId, "r1", "r2"}}
    \cup {[id |-> i] : i \in {FreshId, "r1", "r2"}}
    \cup {[code |-> 0], [type |-> "device"]}
CallLines == {[kind |-> "object", obj |-> r] : r \in Replies}
             \cup {[kind |-> k] : k \in {"invalid", "eof", "timeout"}}

\* send_command up to the loop: the id, connect, sendall
send_command(cmd, ok) ==
    /\ call.at = "idle"
    /\ LET req_id == IF Has(cmd, "id") THEN cmd.id ELSE FreshId
       IN  call' = IF ok THEN [at |-> "read", id |-> req_id, seen |-> <<>>]
                   ELSE [at |-> "raised", id |-> req_id, seen |-> <<>>, error |-> "OSError"]
    /\ UNCHANGED <<server_vars, norm, tool, cli, scr>>

\* line = f.readline() and what the loop does with it
send_command_readline(line) ==
    /\ call.at = "read"
    /\ Len(call.seen) < MaxCallLines
    /\ LET c == [call EXCEPT !.seen = Append(@, line)]
           raised(e) == [at |-> "raised", id |-> c.id, seen |-> c.seen, error |-> e]
           returned(r) == [at |-> "returned", id |-> c.id, seen |-> c.seen, resp |-> r]
       IN  call' =
             IF line.kind = "timeout" THEN raised("timeout")
             ELSE IF line.kind = "eof" THEN raised("no response")
             ELSE IF line.kind = "invalid" THEN c
             ELSE IF Has(line.obj, "id")
                  THEN IF line.obj.id # c.id THEN c
                       ELSE IF ~Has(line.obj, "code") \/ line.obj.code = 0
                            THEN returned(line.obj)
                            ELSE raised("error from helper")
                  ELSE returned(line.obj)
    /\ UNCHANGED <<server_vars, norm, tool, cli, scr>>

CallNext ==
    \/ \E cmd \in CallCmds, ok \in BOOLEAN : send_command(cmd, ok)
    \/ \E line \in CallLines : send_command_readline(line)

CallSpec == Init /\ [][CallNext]_vars

\* ------------------------------------------------------------------ ScrcpyManager
\* src/aurynk/core/scrcpy_runner.py.  scr.processes is self.processes
\* (serial -> the Popen object, by pid), scr.procs every process started:
\* its serial, whether it runs, the signal sent, where its monitor thread
\* stands ("wait" in proc.wait(), "check", "del", "notify", "done", or
\* "dead" after a KeyError) and the callbacks registered when it exited.
\* scr.stop is the thread in stop_mirror_by_serial; scr.called holds the
\* calls made of the stop callbacks, as <<callback, pid>>.
MaxMgrProcs == 2       \* processes the manager starts
NumStopCallbacks == 1  \* stop callbacks registered
MgrSerials == {"X"}

\* add_stop_callback
add_stop_callback(cb) ==
    /\ cb \notin scr.stop_callbacks
    /\ scr' = [scr EXCEPT !.stop_callbacks = @ \cup {cb}]
    /\ UNCHANGED <<server_vars, norm, tool, cli, call>>

\* start_mirror_usb: True at once when the serial's process runs; the entry of
\* a finished one is deleted; Popen, the entry, the monitor thread
start_mirror_usb(serial) ==
    /\ Len(scr.procs) < MaxMgrProcs
    /\ ~(Has(scr.processes, serial) /\ scr.procs[scr.processes[serial]].state = "running")
    /\ LET pid == Len(scr.procs) + 1
       IN  scr' = [scr EXCEPT
                     !.procs = Append(@, [serial |-> serial, state |-> "running",
                                          sig |-> "none", mon |-> "wait", cbs |-> {}]),
                     !.processes = Put(@, serial, pid)]
    /\ UNCHANGED <<server_vars, norm, tool, cli, call>>

\* the process ends: the window is closed, or a signal was sent
scrcpy_exit(pid) ==
    /\ pid \in DOMAIN scr.procs
    /\ scr.procs[pid].state = "running"
    /\ scr' = [scr EXCEPT !.procs[pid].state = "exited",
                          !.procs[pid].cbs = scr.stop_callbacks]
    /\ UNCHANGED <<server_vars, norm, tool, cli, call>>

\* _monitor_process: proc.wait() returns
scr_monitor_waited(pid) ==
    /\ pid \in DOMAIN scr.procs
    /\ scr.procs[pid].state = "exited"
    /\ scr.procs[pid].mon = "wait"
    /\ scr' = [scr EXCEPT !.procs[pid].mon = "check"]
    /\ UNCHANGED <<server_vars, norm, tool, cli, call>>

\* if serial in self.processes and self.processes[serial] == proc
scr_monitor_check(pid) ==
    /\ pid \in DOMAIN scr.procs
    /\ scr.procs[pid].mon = "check"
    /\ LET serial == scr.procs[pid].serial
       IN  scr' = [scr EXCEPT !.procs[pid].mon =
                      IF Has(scr.processes, serial) /\ scr.processes[serial] = pid
                      THEN "del" ELSE "done"]
    /\ UNCHANGED <<server_vars, norm, tool, cli, call>>

\* del self.processes[serial]: KeyError when another thread has deleted it
scr_monitor_del(pid) ==
    /\ pid \in DOMAIN scr.procs
    /\ scr.procs[pid].mon = "del"
    /\ LET serial == scr.procs[pid].serial
       IN  scr' = IF Has(scr.processes, serial)
                  THEN [scr EXCEPT !.processes = Pop(@, serial), !.procs[pid].mon = "notify"]
                  ELSE [scr EXCEPT !.procs[pid].mon = "dead"]
    /\ UNCHANGED <<server_vars, norm, tool, cli, call>>

\* for callback in self.stop_callbacks: callback(serial), each in its try
scr_monitor_notify(pid) ==
    /\ pid \in DOMAIN scr.procs
    /\ scr.procs[pid].mon = "notify"
    /\ scr' = [scr EXCEPT !.called = @ \cup {<<cb, pid>> : cb \in scr.stop_callbacks},
                          !.procs[pid].mon = "done"]
    /\ UNCHANGED <<server_vars, norm, tool, cli, call>>

\* stop_mirror_by_serial: proc = self.processes.get(serial); proc.terminate()
stop_mirror_by_serial(serial) ==
    /\ scr.stop.at = "idle"
    /\ Has(scr.processes, serial)
    /\ LET pid == scr.processes[serial]
       IN  scr' = [scr EXCEPT
                     !.stop = [at |-> "wait", serial |-> serial, pid |-> pid],
                     !.procs[pid].sig = IF scr.procs[pid].state = "running" THEN "term"
                                        ELSE @]
    /\ UNCHANGED <<server_vars, norm, tool, cli, call>>

\* proc.wait(timeout=5) returns: the process has exited
scr_stop_waited ==
    /\ scr.stop.at = "wait"
    /\ scr.procs[scr.stop.pid].state = "exited"
    /\ scr' = [scr EXCEPT !.stop.at = "finally"]
    /\ UNCHANGED <<server_vars, norm, tool, cli, call>>

\* proc.wait(timeout=5) raises TimeoutExpired: proc.kill()
scr_stop_timeout ==
    /\ scr.stop.at = "wait"
    /\ scr.procs[scr.stop.pid].state = "running"
    /\ scr' = [scr EXCEPT !.stop.at = "finally", !.procs[scr.stop.pid].sig = "kill"]
    /\ UNCHANGED <<server_vars, norm, tool, cli, call>>

\* finally: if serial in self.processes
scr_stop_finally ==
    /\ scr.stop.at = "finally"
    /\ scr' = [scr EXCEPT !.stop.at = IF Has(scr.processes, scr.stop.serial)
                                      THEN "del" ELSE "idle"]
    /\ UNCHANGED <<server_vars, norm, tool, cli, call>>

\* del self.processes[serial], and return True; KeyError when the monitor
\* thread has deleted it
scr_stop_del ==
    /\ scr.stop.at = "del"
    /\ scr' = [scr EXCEPT !.processes = Pop(@, scr.stop.serial), !.stop = [at |-> "idle"]]
    /\ UNCHANGED <<server_vars, norm, tool, cli, call>>

MgrNext ==
    \/ \E cb \in 1..NumStopCallbacks : add_stop_callback(cb)
    \/ \E serial \in MgrSerials : start_mirror_usb(serial)
    \/ \E pid \in 1..MaxMgrProcs : scrcpy_exit(pid)
    \/ \E pid \in 1..MaxMgrProcs : scr_monitor_waited(pid)
    \/ \E pid \in 1..MaxMgrProcs : scr_monitor_check(pid)
    \/ \E pid \in 1..MaxMgrProcs : scr_monitor_del(pid)
    \/ \E pid \in 1..MaxMgrProcs : scr_monitor_notify(pid)
    \/ \E serial \in MgrSerials : stop_mirror_by_serial(serial)
    \/ scr_stop_waited
    \/ scr_stop_timeout
    \/ scr_stop_finally
    \/ scr_stop_del

MgrSpec == Init /\ [][MgrNext]_vars

\* ------------------------------------------------------------------ properties
\* The step reads a line on c (action level).
Reads(c) == nreq'[c] = nreq[c] + 1
\* The children of serial s that have been spawned and have not exited.
Live(s) == {p \in DOMAIN procs : procs[p].serial = s /\ procs[p].state = "running"}
\* The reply of the exchange c is in, if one has been written.
Replied(c) == out[c] # <<>> /\ IsReply(out[c][1])
StartOf(c, s) ==
    /\ req[c].kind = "object"
    /\ Get(req[c].obj, "cmd") = "start_mirror"
    /\ Get(req[c].obj, "serial") = s

\* C1: at every moment at most one spawned, not yet exited mirroring child
\* per serial, whatever the interleaving of start_mirror, stop_mirror and
\* child exits.
C1_OneLiveChildPerSerial == \A s \in Serials : Cardinality(Live(s)) <= 1

\* C2: two start_mirror requests for the same serial on two connections, with
\* no exit or stop of that serial in between and no spawn failure, get one
\* reply with code 0 and one reply with code 1 and error already_running.
C2_OneStartWins ==
    \A s \in Serials : \A c, d \in Conns :
        ( /\ c # d
          /\ StartOf(c, s) /\ Replied(c)
          /\ StartOf(d, s) /\ Replied(d)
          /\ Get(out[c][1], "error") # "start_failed"
          /\ Get(out[d][1], "error") # "start_failed"
          /\ \A p \in DOMAIN procs :
                procs[p].serial = s => procs[p].state = "running" /\ procs[p].sig = "none" )
        => \/ out[c][1].code = 0 /\ out[d][1].code = 1
                /\ Get(out[d][1], "error") = "already_running"
           \/ out[d][1].code = 0 /\ out[c][1].code = 1
                /\ Get(out[c][1], "error") = "already_running"

\* C3: a start_mirror for a serial the process map holds at the moment the
\* request is handled is answered code 1, already_running; no child is
\* spawned and the process map is unchanged.
C3_StartTrackedRejected ==
    [][\A c \in Conns : \A s \in Serials :
          ( /\ Reads(c)
            /\ StartOf(c, s)'
            /\ s \in DOMAIN processes )
          => /\ Len(out'[c]) = 1
             /\ out'[c][1].code = 1
             /\ Get(out'[c][1], "error") = "already_running"
             /\ pc'[c] # "spawn"
             /\ procs' = procs
             /\ processes' = processes]_vars

\* C3 witness: a start_mirror has been answered already_running while the
\* child of its serial runs.
C3_Witness ==
    \E c \in Conns : \E s \in Serials :
        /\ StartOf(c, s) /\ Replied(c)
        /\ Get(out[c][1], "error") = "already_running"
        /\ s \in DOMAIN processes
        /\ Live(s) # {}

\* C4: a stop_mirror for a serial that is not in the process map is answered
\* code 1, not_running, and changes nothing: the process map, the registry and
\* the subscriber set are as before (a requester whose connection is lost
\* while the reply is sent leaves the set, as on any lost connection), no
\* child is signalled and no broadcast is written.
C4_StopUntrackedNoEffect ==
    [][\A c \in Conns : \A s \in Serials :
          ( /\ Reads(c)
            /\ req'[c].kind = "object"
            /\ Get(req'[c].obj, "cmd") = "stop_mirror"
            /\ Get(req'[c].obj, "serial") = s
            /\ s \notin DOMAIN processes )
          => /\ Len(out'[c]) = 1
             /\ out'[c][1].code = 1
             /\ Get(out'[c][1], "error") = "not_running"
             /\ processes' = processes
             /\ procs' = procs
             /\ devices' = devices
             /\ bc' = bc
             /\ \A d \in Conns \ {c} : out'[d] = out[d] /\ closed'[d] = closed[d]
             /\ IF pc'[c] = "lost" THEN clients' = clients \ {c} ELSE clients' = clients]_vars

\* C4 witness: the stop of an untracked serial has been answered not_running
\* while another serial's child runs and a subscriber listens.
C4_Witness ==
    \E c \in Conns : \E s \in Serials :
        /\ req[c].kind = "object"
        /\ Get(req[c].obj, "cmd") = "stop_mirror"
        /\ Get(req[c].obj, "serial") = s
        /\ Replied(c)
        /\ Get(out[c][1], "error") = "not_running"
        /\ pc[c] = "read"
        /\ processes # <<>>
        /\ clients # {}

Range(q) == {q[i] : i \in DOMAIN q}
\* The step resumes the broadcast t from a drain (action level).
Resumed(t) == t \in DOMAIN bc /\ (t \notin DOMAIN bc' \/ bc'[t] # bc[t])
\* The subscribers whose write or drain has failed in the broadcast b, the
\* one it resumes from included (action level).
Failed(b) == b.rm \cup (IF closed'[b.cur] THEN {b.cur} ELSE {})

\* C5: in a broadcast a failure on one subscriber does not keep the message
\* from being written to the other subscribers of the set: whatever the drain
\* it resumes from did, the loop writes to a next subscriber until none is
\* left; when it ends exactly the subscribers whose write failed are closed
\* and leave the set, and all others stay in it.
C5_BroadcastIsolation ==
    [][\A t \in DOMAIN bc :
          Resumed(t) =>
            LET b == bc[t]
            IN  IF b.todo # {}
                THEN /\ t \in DOMAIN bc'
                     /\ bc'[t].cur \in b.todo
                     /\ bc'[t].todo = b.todo \ {bc'[t].cur}
                     /\ bc'[t].rm = Failed(b)
                     /\ bc'[t].to = b.to
                     /\ LET w == bc'[t].cur
                        IN  IF closed[w] THEN out'[w] = out[w]
                                         ELSE out'[w] = Append(out[w], b.msg)
                     /\ clients' = clients
                ELSE /\ t \notin DOMAIN bc'
                     /\ clients' = clients \ Failed(b)
                     /\ \A w \in Failed(b) : closed'[w]
                     /\ \A w \in b.to \ Failed(b) : closed'[w] = closed[w]]_vars

\* C5 witness: a broadcast to three subscribers has had one failure and has
\* written its message to the two others, which are open.
C5_Witness ==
    \E t \in DOMAIN bc :
        LET b == bc[t]
        IN  /\ Cardinality(b.to) = 3
            /\ b.todo = {}
            /\ Cardinality(b.rm) = 1
            /\ \A w \in b.to \ b.rm : ~closed[w] /\ b.msg \in Range(out[w])

\* C6 as stated: in every state a connection is in the subscriber set only if
\* it has sent subscribe and has since neither disconnected nor had a write
\* fail; a connection that never sent subscribe is never written a broadcast.
C6_SubscribersOpen ==
    /\ \A c \in clients : c \in subscribed /\ ~closed[c]
    /\ \A c \in Conns \ subscribed : \A m \in Range(out[c]) : IsReply(m)

\* C6: a connection is in the subscriber set only if it has sent subscribe
\* and has not disconnected; one whose write failed in a broadcast is closed
\* at once and stays in the set only until that broadcast's loop has ended;
\* a connection that never sent subscribe is never written a broadcast.
C6_SubscribersSubscribed ==
    /\ \A c \in clients :
          /\ c \in subscribed
          /\ pc[c] \notin {"none", "done", "lost"}
          /\ closed[c] => \E t \in DOMAIN bc : c \in bc[t].rm
    /\ \A c \in Conns \ subscribed : \A m \in Range(out[c]) : IsReply(m)

\* C6 witness: a subscriber whose write failed is still in the set while the
\* broadcast goes on, and a connection that has sent a request and never
\* subscribed is open.
C6_Witness ==
    \E c \in clients : \E d \in Conns \ subscribed :
        /\ closed[c]
        /\ nreq[d] > 0
        /\ pc[d] = "read"

\* A connection whose only line so far is subscribe.
SubOnly(c) ==
    /\ nreq[c] = 1
    /\ req[c].kind = "object"
    /\ Get(req[c].obj, "cmd") = "subscribe"

C7_Written ==
    \A c \in Conns :
        SubOnly(c) =>
            /\ out[c] # <<>>
            /\ out[c][1].code = 0
            /\ out[c][1].type = "state"
            /\ \A i \in 2..Len(out[c]) : IsBroadcast(out[c][i])
            /\ \A t \in DOMAIN bc :
                  (c \in bc[t].to \ bc[t].todo /\ ~closed[c])
                  => \E i \in 2..Len(out[c]) : out[c][i] = bc[t].msg

C7_Step ==
    /\ \A c \in Conns :
          (Reads(c) /\ req'[c].kind = "object" /\ Get(req'[c].obj, "cmd") = "subscribe")
          => /\ out'[c] = << WithId(req'[c].obj, [code |-> 0, status |-> "ok",
                                     type |-> "state", devices |-> Values(devices)]) >>
             /\ pc'[c] = "read" => c \in clients'
    /\ \A t \in DOMAIN bc' \ DOMAIN bc : bc'[t].to = clients /\ clients' = clients

\* C7: the first message written to a connection after its subscribe is one
\* state snapshot (code 0, type state) of the registry's devices at that
\* moment; nothing but broadcasts follows it, none precedes it, and every
\* broadcast generated while the connection is in the subscriber set has the
\* connection among the subscribers it writes to.
C7_SnapshotThenBroadcasts == []C7_Written /\ [][C7_Step]_vars

\* C7 witness: a connection that subscribed while a device was registered has
\* been written the snapshot with that device and then a broadcast.
C7_Witness ==
    \E c \in Conns :
        /\ SubOnly(c)
        /\ Len(out[c]) >= 2
        /\ out[c][1].devices # {}
        /\ IsBroadcast(out[c][2])

\* C8: every reply written on a connection carries the id of the request it
\* answers, and no id when that request has none; so with requests in flight
\* on several connections no reply carries another connection's id.
C8_IdEchoed ==
    \A c \in Conns : \A m \in Range(out[c]) :
        IsReply(m) => Get(m, "id") = Get(req[c].obj, "id")

\* C8 witness: while a start_mirror with id "1" awaits its spawn on one
\* connection, a request with id "2" on another has been answered with id "2".
C8_Witness ==
    \E c, d \in Conns :
        /\ pc[c] = "spawn"
        /\ Get(req[c].obj, "id") = "1"
        /\ Get(req[d].obj, "id") = "2"
        /\ Replied(d)
        /\ Get(out[d][1], "id") = "2"

\* C9: every line that is no well-formed request (text that is not JSON, or
\* a JSON number, string, array or null) is answered with one reply with a
\* nonzero code and an error token, and the server leaves the connection open.
C9_MalformedAnswered ==
    [][\A c \in Conns :
          (Reads(c) /\ req'[c].kind \in OtherKinds)
          => /\ Len(out'[c]) = 1
             /\ IsReply(out'[c][1])
             /\ out'[c][1].code # 0
             /\ Has(out'[c][1], "error")
             /\ pc'[c] \in {"read", "lost"}]_vars

KnownCmds == {"ping", "status", "subscribe", "start_mirror", "stop_mirror"}

\* C10: a request whose cmd is none of ping, status, subscribe, start_mirror,
\* stop_mirror is answered code 1, unknown_cmd; the registry, the process map,
\* the children and the subscriber set are as before, and the handler goes on
\* to its next readline unless the connection is lost while the reply is sent.
C10_UnknownCmd ==
    [][\A c \in Conns :
          ( /\ Reads(c)
            /\ req'[c].kind = "object"
            /\ Has(req'[c].obj, "cmd")
            /\ req'[c].obj.cmd \notin KnownCmds )
          => /\ out'[c] = << WithId(req'[c].obj, ErrorReply("unknown_cmd")) >>
             /\ devices' = devices
             /\ processes' = processes
             /\ procs' = procs
             /\ bc' = bc
             /\ \A d \in Conns \ {c} : out'[d] = out[d] /\ closed'[d] = closed[d]
             /\ pc'[c] \in {"read", "lost"}
             /\ IF pc'[c] = "lost"
                THEN clients' = clients \ {c}
                ELSE clients' = clients /\ ~closed'[c]]_vars

\* C10 witness: an unknown command has been answered unknown_cmd on a
\* connection that is open at its next readline, while a child runs.
C10_Witness ==
    \E c \in Conns :
        /\ req[c].kind = "object"
        /\ Get(req[c].obj, "cmd") = "bogus"
        /\ Replied(c)
        /\ Get(out[c][1], "error") = "unknown_cmd"
        /\ pc[c] = "read"
        /\ ~closed[c]
        /\ processes # <<>>

\* Letters and digits, and a letter's upper case.
Alnum(ch) == ch \in {"a", "A", "1"}
Upper(ch) == IF ch = "a" THEN "A" ELSE ch
\* The serial without its other characters, in upper case: two serials
\* differ only in letter case or in non-alphanumeric characters when these
\* are equal.
Folded(x) == LET y == SelectSeq(x, Alnum) IN [i \in 1..Len(y) |-> Upper(y[i])]
Normalized == Has(norm, "ks")

\* C12 as stated: any two serials that differ only in letter case or in
\* non-alphanumeric characters get the same key, and the key of a key is the
\* key.
C12_SameKeyIdempotent ==
    Normalized =>
        /\ Folded(norm.s) = Folded(norm.t) => norm.ks = norm.kt
        /\ norm.kks = norm.ks
        /\ norm.kkt = norm.kt

\* C12: two serials that hold a letter or a digit and differ only in letter
\* case or in non-alphanumeric characters get the same key, by either
\* function, and the key of such a serial's key is that key.  (A serial of
\* other characters only gets the key "", the empty serial gets None, and the
\* key of "" is None.)
C12_SameKeyNonEmpty ==
    Normalized =>
        /\ (Folded(norm.s) = Folded(norm.t) /\ Folded(norm.s) # <<>>) => norm.ks = norm.kt
        /\ Folded(norm.s) # <<>> => norm.kks = norm.ks /\ norm.ks # NoKey
        /\ Folded(norm.t) # <<>> => norm.kkt = norm.kt /\ norm.kt # NoKey
        /\ \A i \in 1..Len(norm.ks) : norm.ks = NoKey \/ Kept(norm.ks[i])

\* C12 witness: two serials that differ in case and in punctuation have been
\* given one key.
C12_Witness ==
    /\ Normalized
    /\ norm.s # norm.t
    /\ Len(norm.s) = 3
    /\ \E i \in 1..Len(norm.s) : norm.s[i] = "A"
    /\ \E i \in 1..Len(norm.t) : norm.t[i] = "-"
    /\ norm.ks = norm.kt
    /\ Len(norm.ks) = 2

\* C11: a device the hotplug watcher stored under serial k1 and the bridge
\* scan stored under serial k2, where k1 and k2 differ only in letter case or
\* punctuation, is held as one record: k1 and k2 are the same key.
C11_OneRecordPerDevice ==
    \A k1, k2 \in DOMAIN devices :
        /\ Get(devices[k1], "action") = "add"
        /\ Get(devices[k2], "action") = "adb_present"
        /\ norm_serial(Spell(k1)) = norm_serial(Spell(k2))
        => k1 = k2

\* C13: when a bridge scan reports the serial of a record the hotplug watcher
\* added, the record becomes adb_present and keeps the vendor_id, product_id
\* and udev properties the hotplug event supplied.
C13_HotplugFieldsKept ==
    [][\A k \in DOMAIN devices :
          /\ Get(devices[k], "action") = "add"
          /\ k \in DOMAIN devices'
          /\ Get(devices'[k], "action") = "adb_present"
          => /\ Get(devices'[k], "vendor_id") = Get(devices[k], "vendor_id")
             /\ Get(devices'[k], "product_id") = Get(devices[k], "product_id")
             /\ Get(devices'[k], "properties") = Get(devices[k], "properties")]_vars

\* C14: a hotplug add or bind event that resolves to the key of an
\* adb_present record leaves that record as it is.
C14_BridgeRecordKept ==
    [][\A k \in DOMAIN devices :
          /\ Get(devices[k], "action") = "adb_present"
          /\ queue # <<>>
          /\ queue' = Tail(queue)
          /\ Head(queue).action \in {"add", "bind"}
          /\ device_key(Head(queue)) = k
          => /\ k \in DOMAIN devices'
             /\ devices'[k] = devices[k]]_vars

\* C15: applying the same scan to the registry a second time, with nothing
\* in between, changes no record and broadcasts nothing (changed stays
\* False); after the first application every scanned serial has its record.
C15_RescanIdempotent ==
    \A a \in RegScans :
        LET d1 == Rescanned(devices, a)
        IN  /\ DOMAIN a \subseteq DOMAIN d1
            /\ Rescanned(d1, a) = d1
            /\ ~RescanChanged(d1, a)

\* a scan that reports a device has been applied to the registry, and
\* applying it again changes nothing
C15_Witness ==
    \E a \in RegScans :
        /\ DOMAIN a # {}
        /\ \A k \in DOMAIN a : k \in DOMAIN devices /\ devices[k] = AdbInfo(k, a[k])
        /\ Rescanned(devices, a) = devices
        /\ ~RescanChanged(devices, a)

\* C16: a step in which rescan i ends its wait for adb.  For some scan: the
\* records removed are exactly the adb_present ones whose serial is not in
\* the scan; every scanned serial is held as adb_present afterwards and
\* nothing else is added; a hotplug record whose key is not in the scan is
\* unchanged; and with a subscriber, one state broadcast of the new registry
\* is started if and only if the registry changed.
RescanStep(i) ==
    /\ i \in DOMAIN scans
    /\ scans[i].at = "adb"
    /\ i \notin DOMAIN scans' \/ scans'[i].at # "adb"

C16_RescanDiff ==
    [][\A i \in 1..MaxEvents :
          RescanStep(i) =>
          \E a \in RegScans :
              /\ \A k \in DOMAIN devices :
                    k \notin DOMAIN devices'
                    <=> Get(devices[k], "action") = "adb_present" /\ k \notin DOMAIN a
              /\ \A k \in DOMAIN a :
                    k \in DOMAIN devices' /\ Get(devices'[k], "action") = "adb_present"
              /\ DOMAIN devices' \subseteq DOMAIN devices \cup DOMAIN a
              /\ \A k \in DOMAIN devices :
                    Get(devices[k], "action") # "adb_present" /\ k \notin DOMAIN a
                    => k \in DOMAIN devices' /\ devices'[k] = devices[k]
              /\ clients # {} =>
                    /\ <<"scan", i>> \in DOMAIN bc' <=> devices' # devices
                    /\ <<"scan", i>> \in DOMAIN bc' =>
                          bc'[<<"scan", i>>].msg
                              = [type |-> "state", devices |-> Values(devices')]]_vars

\* a rescan is broadcasting the registry it left: a hotplug record next to an
\* adb_present one
C16_Witness ==
    \E i \in 1..MaxEvents :
        /\ <<"scan", i>> \in DOMAIN bc
        /\ \E k \in DOMAIN devices : Get(devices[k], "action") = "add"
        /\ \E k \in DOMAIN devices : Get(devices[k], "action") = "adb_present"

\* C17: once a child has exited, its monitor eventually ends, and then the
\* process map no longer holds the child under its serial; the monitor starts
\* one broadcast and no second one, to the subscribers of that moment, of the
\* process exit message with the child's serial and return code.
ExitMsg(pid) ==
    [type |-> "process", action |-> "exit", serial |-> procs[pid].serial,
     returncode |-> procs[pid].returncode]

Tracked(pid) ==
    Has(processes, procs[pid].serial) /\ processes[procs[pid].serial] = pid

C17_Eventually ==
    \A pid \in 1..MaxProcs :
        (pid \in DOMAIN procs /\ procs[pid].state = "exited")
        ~> (pid \in DOMAIN procs /\ procs[pid].mon = "done" /\ ~Tracked(pid))

C17_Once ==
    \A pid \in 1..MaxProcs :
        pid \in DOMAIN procs =>
            /\ procs[pid].mon = "wait" /\ procs'[pid].mon # "wait" =>
                  /\ procs[pid].state = "exited"
                  /\ ~Has(processes', procs[pid].serial)
                  /\ clients # {} =>
                        /\ <<"mon", pid>> \in DOMAIN bc'
                        /\ bc'[<<"mon", pid>>].msg = ExitMsg(pid)
                        /\ bc'[<<"mon", pid>>].to = clients
                        /\ \E w \in clients : out'[w] = Written(out, w, ExitMsg(pid))[w]
            /\ procs[pid].mon # "wait" =>
                  /\ procs'[pid].mon # "wait"
                  /\ <<"mon", pid>> \in DOMAIN bc' => <<"mon", pid>> \in DOMAIN bc
            /\ procs[pid].state = "running" => procs[pid].mon = "wait"

C18_GenerationOrder ==
    nev.events <= 1 =>
        \A w \in Conns : \A i, j \in DOMAIN out[w] :
            /\ IsBroadcast(out[w][i])
            /\ Get(out[w][i], "type") = "state"
            /\ Get(out[w][j], "type") = "device"
            => j < i

\* The step takes an event from the queue (action level).
EventStep == queue # <<>> /\ queue' = Tail(queue)
\* The event names a device: it has a serial that is no device path, or a
\* vendor and a product.
Keyed(info) ==
    \/ info.serial # "" /\ ~IsDevPath(info.serial)
    \/ info.vendor_id \notin {None, ""} /\ info.product_id \notin {None, ""}
KeyOf(info) ==
    IF info.serial # "" /\ ~IsDevPath(info.serial) THEN info.serial
    ELSE "usb:" \o info.vendor_id \o ":" \o info.product_id
\* The step starts one device broadcast, of the given action and serial, to
\* the subscribers; with no subscriber nothing is written (action level).
DeviceBroadcast(action, serial) ==
    IF clients = {} THEN bc' = bc /\ out' = out
    ELSE /\ <<"evt", 0>> \notin DOMAIN bc
         /\ DOMAIN bc' = DOMAIN bc \cup {<<"evt", 0>>}
         /\ \A t \in DOMAIN bc : bc'[t] = bc[t]
         /\ bc'[<<"evt", 0>>].to = clients
         /\ bc'[<<"evt", 0>>].msg.type = "device"
         /\ bc'[<<"evt", 0>>].msg.action = action
         /\ bc'[<<"evt", 0>>].msg.serial = serial
         /\ \E w \in clients : out' = Written(out, w, bc'[<<"evt", 0>>].msg)
\* The event is applied as an add / as a remove, under the key k.
AppliedAsAdd(info, k) ==
    /\ DOMAIN devices' = DOMAIN devices \cup {k}
    /\ devices'[k] = Put(info, "action", "add")
    /\ \A x \in DOMAIN devices \ {k} : devices'[x] = devices[x]
    /\ DeviceBroadcast("add", info.serial)
AppliedAsRemove(info, k) ==
    /\ devices' = Pop(devices, k)
    /\ DeviceBroadcast("remove", info.serial)

\* C19 as stated: every add or bind event is applied as an add, every remove
\* or unbind event as a remove, each with one device broadcast of the
\* event's serial to the subscribers; any other event leaves the registry
\* unchanged.
C19_AddRemoveApplied ==
    [][EventStep =>
        LET info == Head(queue)
        IN  IF info.action \in {"add", "bind"}
            THEN \E k \in DOMAIN devices' : AppliedAsAdd(info, k)
            ELSE IF info.action \in {"remove", "unbind"}
            THEN \E k \in DOMAIN devices \cup {None} : AppliedAsRemove(info, k)
            ELSE devices' = devices /\ bc' = bc /\ out' = out]_vars

\* C19: an event that names a device is applied as an add when its action is
\* add or bind and as a remove when it is remove or unbind, under the
\* device's key, with one device broadcast of the event's serial to the
\* subscribers; an event of any other action changes nothing.  An event that
\* names no device is skipped when it is an add or a bind; when it is a
\* remove or an unbind, the last added device leaves the registry and the
\* broadcast carries the serial of its record (its key when the record is
\* gone), or the empty serial when no device was added last.
C19_KeyedAddRemove ==
    [][EventStep =>
        LET info == Head(queue)
        IN  IF ~(info.action \in {"add", "bind", "remove", "unbind"})
            THEN devices' = devices /\ bc' = bc /\ out' = out
            ELSE IF Keyed(info)
            THEN IF info.action \in {"add", "bind"}
                 THEN AppliedAsAdd(info, KeyOf(info))
                 ELSE AppliedAsRemove(info, KeyOf(info))
            ELSE IF info.action \in {"add", "bind"}
                 THEN devices' = devices /\ bc' = bc /\ out' = out
                 ELSE IF last_added_device # None
                      THEN /\ devices' = Pop(devices, last_added_device)
                           /\ DeviceBroadcast("remove",
                                  IF last_added_device \in DOMAIN devices
                                  THEN devices[last_added_device].serial
                                  ELSE last_added_device)
                      ELSE /\ devices' = devices
                           /\ DeviceBroadcast("remove", "")]_vars

\* an event has been applied as an add: its record is in the registry
\* and the device broadcast with action add and its serial is written to a
\* subscriber
C19_Witness ==
    /\ <<"evt", 0>> \in DOMAIN bc
    /\ LET m == bc[<<"evt", 0>>].msg
       IN  /\ m.action = "add"
           /\ m.serial \in DOMAIN devices
           /\ devices[m.serial].action = "add"
           /\ \E w \in clients : m \in Range(out[w])
    /\ nev.events = 1

\* C20: in the packaged helper every add event and every remove event taken
\* from the loop updates the device map (add stores the event's record under
\* its serial, remove deletes it) and schedules one device broadcast of that
\* event.
C20_ToolAddRemoveBroadcast ==
    [][(tool.calls # <<>> /\ tool'.calls = Tail(tool.calls)
        /\ Head(tool.calls).action \in {"add", "remove"}) =>
        LET info == Head(tool.calls)
        IN  /\ IF info.action = "add"
               THEN Has(tool'.devices, info.serial) /\ tool'.devices[info.serial] = info
               ELSE ~Has(tool'.devices, info.serial)
            /\ tool'.tasks = Append(tool.tasks, Put(info, "type", "device"))]_vars

\* The step is a failed attempt of the subscription loop: connect raises,
\* the subscribe command cannot be sent, or the connection drops while the
\* loop reads (end of file or an exception).
FailedAttempt ==
    \/ cli.at = "top" /\ cli'.attempts = cli.attempts + 1 /\ cli'.at # "connected"
    \/ cli.at = "connected" /\ cli'.at # "connected" /\ cli'.at # "read"
    \/ cli.at = "readline" /\ cli'.lines = cli.lines + 1 /\ cli'.at \notin {"read", "parsed"}

\* C21: after every failed attempt the subscription loop waits for the
\* current backoff delay before it goes back to connect.
C21_BackoffAfterFailure ==
    [][FailedAttempt => cli'.at = "wait" /\ cli'.delay = cli.backoff]_vars

\* The messages callback k has been called with, in the order of the calls.
Delivered(k) == [i \in 1..Len(cli.got[k]) |-> cli.got[k][i].msg]
\* The messages whose delivery started after k was registered.
Due(k) == SubSeq(cli.recv, cli.since[k] + 1, Started(cli))
Pending(k) == cli.at = "deliver" /\ \E i \in DOMAIN cli.snap : cli.snap[i] = k

\* C23: a registered callback has been called exactly once with every
\* message decoded since its registration, in the order received - but for
\* the message being delivered, when its turn has not come yet; a callback
\* that raised changes nothing to this.  And the delivery of a decoded
\* message always reaches the last callback.
C23_InOrder ==
    \A k \in DOMAIN cli.got :
        IF Pending(k)
        THEN Delivered(k) = SubSeq(Due(k), 1, Len(Due(k)) - 1)
        ELSE Delivered(k) = Due(k)

C23_Eventually == (cli.at \in {"parsed", "deliver"}) ~> (cli.at \notin {"parsed", "deliver"})

C22_Returned ==
    call.at = "returned" => Has(call.resp, "id") /\ call.resp.id = call.id

C22_Step ==
    (call.at = "read" /\ call' # call) =>
        LET line == Last(call'.seen)
        IN  /\ line.kind \in {"eof", "timeout"} => call'.at = "raised"
            /\ line.kind = "invalid" => call'.at = "read"
            /\ (line.kind = "object" /\ Get(line.obj, "id") # call.id) => call'.at = "read"

C22_OnlyMatchingReply == []C22_Returned /\ [][C22_Step]_vars

\* C24: when a process the manager started has stopped and its monitor
\* thread has ended, every stop callback that was registered when the process
\* stopped has been called for it.
C24_StopCallbacksCalled ==
    \A pid \in DOMAIN scr.procs :
        scr.procs[pid].mon \in {"done", "dead"} =>
            \A cb \in scr.procs[pid].cbs : <<cb, pid>> \in scr.called

\* C25: every event the server takes from the queue starts a rescan,
\* whatever its action and whether or not it names a device: in the step, or
\* after the broadcast the handler is suspended in.
C25_RescanAfterEveryEvent ==
    [][EventStep =>
          \/ nev'.scans = nev.scans + 1
          \/ evt'.at = "broadcast" /\ evt'.then \in {"forget", "rescan"}]_vars

\* C26: stop_mirror of a tracked serial sends the child a terminate request
\* and waits; it kills the child only when the child still runs after the
\* grace period; it replies code 0 only when the child has exited; and when
\* it replies stop_failed the child has been sent a kill.
C26_StopEscalates ==
    [][\A c \in Conns :
          /\ (pc[c] = "read" /\ pc'[c] = "stopwait") =>
                (procs'[held'[c]].state = "running" => procs'[held'[c]].sig = "term")
          /\ (pc[c] = "stopwait" /\ pc'[c] = "killwait") =>
                procs[held[c]].state = "running" /\ procs'[held[c]].sig = "kill"
          /\ (pc[c] \in {"stopwait", "killwait"} /\ pc'[c] \notin {"stopwait", "killwait"}) =>
                procs[held[c]].state = "exited"
          /\ (Reads(c) /\ out'[c] # <<>> /\ Get(out'[c][1], "error") = "stop_failed") =>
                procs'[processes[req'[c].obj.serial]].sig = "kill"]_vars

\* C27: a remove or unbind event that names no device (no usable serial
\* and not both ids), taken from the queue while the pointer is set, removes
\* from the registry the pointer's device and nothing else and starts one
\* device broadcast of its removal; the pointer is cleared when the handler
\* ends, at once or after the broadcast it is suspended in.  With no pointer
\* set no record is removed.
Keyless(info) == ~Keyed(info) /\ info.action \in {"remove", "unbind"}

C27_LastAddedRemoved ==
    [][/\ (EventStep /\ Keyless(Head(queue))) =>
            IF last_added_device # None
            THEN /\ devices' = Pop(devices, last_added_device)
                 /\ DeviceBroadcast("remove",
                        IF last_added_device \in DOMAIN devices
                        THEN devices[last_added_device].serial
                        ELSE last_added_device)
                 /\ IF clients = {}
                    THEN last_added_device' = None /\ evt'.at = "get"
                    ELSE evt' = [at |-> "broadcast", then |-> "forget"]
            ELSE devices' = devices
       /\ (evt.at = "broadcast" /\ evt.then = "forget") =>
            /\ evt'.at = "get" => last_added_device' = None
            /\ evt'.at # "get" => evt' = evt /\ last_added_device' = last_added_device
      ]_vars

\* the identifier-less remove has removed the last added device, has
\* broadcast its removal to the subscriber and has cleared the pointer
C27_Witness ==
    /\ nev.events = 2
    /\ queue = <<>>
    /\ evt.at = "get"
    /\ devices = <<>>
    /\ last_added_device = None
    /\ \E w \in Conns : \E i \in DOMAIN out[w] :
          Get(out[w][i], "type") = "device" /\ Get(out[w][i], "action") = "remove"
          /\ Get(out[w][i], "serial") \in RegSerials

\* C28: an add or bind event whose serial is empty or a device path and
\* that carries a vendor and a product is stored under usb:<vendor>:<product>
\* and that key becomes the pointer; a remove or unbind event of that shape
\* removes the record of that key; an add or bind event with no usable
\* serial and without both ids changes neither the registry nor the pointer
\* and writes nothing to any subscriber.
NoUsableSerial(info) == info.serial = "" \/ IsDevPath(info.serial)
BothIds(info) == info.vendor_id \notin {None, ""} /\ info.product_id \notin {None, ""}
CompositeKey(info) == "usb:" \o info.vendor_id \o ":" \o info.product_id

C28_CompositeKey ==
    [][(EventStep /\ NoUsableSerial(Head(queue))) =>
        LET info == Head(queue)
        IN  IF BothIds(info)
            THEN /\ info.action \in {"add", "bind"} =>
                      /\ DOMAIN devices' = DOMAIN devices \cup {CompositeKey(info)}
                      /\ devices'[CompositeKey(info)] = [info EXCEPT !.action = "add"]
                      /\ \A k \in DOMAIN devices \ {CompositeKey(info)} :
                            devices'[k] = devices[k]
                      /\ last_added_device' = CompositeKey(info)
                 /\ info.action \in {"remove", "unbind"} =>
                      /\ DOMAIN devices' = DOMAIN devices \ {CompositeKey(info)}
                      /\ \A k \in DOMAIN devices' : devices'[k] = devices[k]
            ELSE info.action \in {"add", "bind"} =>
                      /\ devices' = devices
                      /\ last_added_device' = last_added_device
                      /\ clients' = clients /\ subscribed' = subscribed
                      /\ out' = out /\ bc' = bc]_vars

\* an add with a device path for a serial is in the registry under the
\* composite key, which is the pointer
C28_Witness ==
    /\ "usb:18d1:4ee7" \in DOMAIN devices
    /\ NoUsableSerial(devices["usb:18d1:4ee7"])
    /\ devices["usb:18d1:4ee7"].action = "add"
    /\ last_added_device = "usb:18d1:4ee7"

\* C29: when the scan of a rescan reports a serial that the registry holds
\* as an adb_present record with other adb_props, the rescan stores the
\* scanned properties in the record and, with a subscriber, starts a state
\* broadcast.
C29_ChangedPropsUpdated ==
    [][\A i \in 1..MaxEvents :
          (/\ RescanStep(i)
           /\ ScanSerial \in DOMAIN devices
           /\ Get(devices[ScanSerial], "action") = "adb_present"
           /\ Get(devices[ScanSerial], "adb_props") # ScanOf(i)[ScanSerial])
          => /\ ScanSerial \in DOMAIN devices'
             /\ devices'[ScanSerial] = AdbInfo(ScanSerial, ScanOf(i)[ScanSerial])
             /\ clients # {} => <<"scan", i>> \in DOMAIN bc']_vars

\* C30: a rescan whose adb command cannot be started, raises or times out
\* ends without changing the registry, without starting a broadcast or
\* writing to a subscriber, and leaves every other rescan, the event queue
\* and its processor, the broadcasts under way and the connections as they
\* were; an event after it still schedules its rescan.
C30_FailedRescanHarmless ==
    [][\A i \in 1..MaxEvents :
          RescanStep(i) =>
             /\ devices' = devices /\ last_added_device' = last_added_device
             /\ bc' = bc /\ out' = out
             /\ DOMAIN scans' = DOMAIN scans \ {i}
             /\ \A j \in DOMAIN scans' : scans'[j] = scans[j]
             /\ queue' = queue /\ evt' = evt
             /\ clients' = clients /\ pc' = pc /\ closed' = closed]_vars

\* the rescan of the first event has failed, and the second event has been
\* applied and its own rescan is pending next to both records
C30_Witness ==
    /\ nev.scans = 2
    /\ DOMAIN scans = {2}
    /\ scans[2].at = "adb"
    /\ Cardinality(DOMAIN devices) = 2
    /\ \A k \in DOMAIN devices : devices[k].action = "add"

\* C31: the backoff delay is 0.5 s at first and never more than 8 s; a
\* successful connect sets it to 0.5 s; after a failed attempt the loop comes
\* back to its next attempt with the delay doubled (8 s at most); and the
\* loop ends only when stop() has set the event.
Doubled(b) == IF 2 * b < MaxBackoff THEN 2 * b ELSE MaxBackoff
\* The step ends a failed attempt: the loop is back at its outer while.
AttemptOver ==
    /\ cli'.at = "top"
    /\ \/ cli.at = "wait"
       \/ cli.at = "connected"
       \/ cli.at = "readline"

C31_Range ==
    /\ cli.backoff \in InitialBackoff..MaxBackoff
    /\ cli.at = "none" => cli.backoff = InitialBackoff
    /\ cli.at = "wait" => cli.delay = cli.backoff

C31_Step ==
    /\ (cli.at = "top" /\ cli'.at = "connected") => cli'.backoff = InitialBackoff
    /\ AttemptOver => cli'.backoff = Doubled(cli.backoff)
    /\ (cli.at # "stopped" /\ cli'.at = "stopped") => cli.stop

C31_BackoffDoubles == []C31_Range /\ [][C31_Step]_vars

\* C32: at any time at most one subscription thread of the client is alive
\* and at most one subscription connection is open, whatever the calls of
\* subscribe() and stop(), and nothing but the subscribe command is written
\* to a subscription connection.
Threads == (IF cli.at \in {"none", "stopped"} THEN 0 ELSE 1) + cli.later
Connections ==
    IF cli.at \in {"connected", "read", "readline", "parsed", "deliver"} THEN 1 ELSE 0

C32_OneSubscription ==
    /\ Threads <= 1
    /\ Connections <= 1
    /\ \A i \in DOMAIN cli.wrote : cli.wrote[i] = "subscribe"

\* C39: once stop() has returned, no callback is called with a message that
\* was read from the subscription connection after the return, and the
\* subscription thread ends.
C39_Step ==
    (cli.returned /\ \E k \in DOMAIN cli.got : Len(cli'.got[k]) > Len(cli.got[k]))
        => Len(cli.recv) <= cli.cut

C39_Ends == (cli.returned /\ cli.at # "none") ~> (cli.at = "stopped")

C39_QuietAfterStop == [][C39_Step]_vars /\ C39_Ends

\* C33: every child the server has spawned and that has not exited is the
\* value of the process map under its serial.
C33_RunningIsTracked ==
    \A pid \in DOMAIN procs :
        procs[pid].state = "running" =>
            /\ Has(processes, procs[pid].serial)
            /\ processes[procs[pid].serial] = pid

\* C34: when the reply with code 0 to a stop_mirror is written, the serial of
\* the request is no longer in the process map - so that a start_mirror for
\* it handled next is not rejected as already_running.
C34_StopReplyAfterRemoval ==
    [][\A c \in Conns :
          (/\ pc[c] \in {"stopwait", "killwait"}
           /\ pc'[c] \notin {"stopwait", "killwait"}
           /\ out'[c] # <<>>
           /\ Get(out'[c][1], "code") = 0)
          => ~Has(processes', req[c].obj.serial)]_vars

\* C35: every signal the observer thread delivers is appended to the queue,
\* the queue is drained from its head and changes in no other way, and a
\* queued signal is eventually taken from it.
C35_Step ==
    /\ nev'.events = nev.events + 1 =>
          \E info \in BootEvents : queue' = Append(queue, info)
    /\ queue' # queue =>
          \/ \E info \in BootEvents : queue' = Append(queue, info)
          \/ EventStep

C35_Drained == (queue # <<>>) ~> (queue = <<>>)

C35_EverySignalApplied == [][C35_Step]_vars /\ C35_Drained

\* C38: when a remove event is taken from the queue that carries the serial,
\* the vendor and the product of a record stored by the enumeration of
\* start(), that record is no longer in the registry after the step.
C38_EnumeratedRemoved ==
    [][EventStep =>
        \A k \in DOMAIN devices :
            (/\ devices[k].action = "present"
             /\ Head(queue).action = "remove"
             /\ Head(queue).serial = devices[k].serial
             /\ Head(queue).vendor_id = devices[k].vendor_id
             /\ Head(queue).product_id = devices[k].product_id)
            => k \notin DOMAIN devices']_vars

\* C36: when every rescan that was started has ended, the adb_present
\* records of the registry are those of the scan of the rescan started last.
BridgeRecords == {k \in DOMAIN devices : Get(devices[k], "action") = "adb_present"}

C36_LatestScanWins ==
    (nev.scans > 0 /\ scans = <<>>) =>
        /\ BridgeRecords = DOMAIN LaterScanOf(nev.scans)
        /\ \A k \in BridgeRecords : devices[k] = AdbInfo(k, LaterScanOf(nev.scans)[k])

\* C37: the pointer, when it is set, is a key of the registry; and the
\* removal an identifier-less remove event broadcasts is that of a record
\* the registry holds.
C37_Pointer == last_added_device # None => last_added_device \in DOMAIN devices

C37_Step ==
    (EventStep /\ Keyless(Head(queue)) /\ last_added_device # None)
        => last_added_device \in DOMAIN devices

C37_PointerInRegistry == []C37_Pointer /\ [][C37_Step]_vars

\* C40: a step of the monitor thread of a process leaves the entry of every
\* other process where it is, and the thread goes on to the stop callbacks
\* only when the entry it has deleted was that of its own process; an entry
\* is filed under the serial of its process.
MonitorStep(pid) ==
    /\ pid \in DOMAIN scr.procs
    /\ scr.procs[pid].mon \in {"check", "del"}
    /\ scr'.procs[pid].mon # scr.procs[pid].mon

C40_Step ==
    \A pid \in 1..MaxMgrProcs :
        MonitorStep(pid) =>
            /\ \A s \in DOMAIN scr.processes :
                  scr.processes[s] # pid =>
                      s \in DOMAIN scr'.processes /\ scr'.processes[s] = scr.processes[s]
            /\ scr'.procs[pid].mon = "notify" =>
                  /\ Has(scr.processes, scr.procs[pid].serial)
                  /\ scr.processes[scr.procs[pid].serial] = pid

C40_Entries ==
    \A s \in DOMAIN scr.processes : scr.procs[scr.processes[s]].serial = s

C40_OwnEntryOnly == []C40_Entries /\ [][C40_Step]_vars

====
